---- MODULE Spec2Model ----
(***************************************************************************)
(* DLMS/COSEM meter client over HDLC (dlms_meter.c, dlms_hdlc.c,           *)
(* dlms_cosem.c): the session orchestrator and the framing and PDU codecs  *)
(* it drives.  Byte buffers are sequences of 0..255; C index i is TLA+     *)
(* index i+1.  Functions that return a length or a negative errno return   *)
(* a record whose ret field is that integer.                               *)
(***************************************************************************)
EXTENDS Integers, Sequences, FiniteSets, TLC

(* ---------------- errno ------------------------------------------------ *)
\* The errno numbers come from the C library, not from this repository; only
\* their sign and their identity matter, so each name gets its own positive
\* number and the code's -EXXX is written 0 - EXXX.
ErrnoNames ==
    <<"EIO", "EAGAIN", "ENOMEM", "EACCES", "EINVAL", "ENODATA", "EPROTO",
      "ENOTCONN", "ENOTSUP", "ENODEV">>
Errno(n) == CHOOSE i \in 1..Len(ErrnoNames) : ErrnoNames[i] = n
EIO == Errno("EIO")
EAGAIN == Errno("EAGAIN")
ENOMEM == Errno("ENOMEM")
EACCES == Errno("EACCES")
EINVAL == Errno("EINVAL")
ENODATA == Errno("ENODATA")
EPROTO == Errno("EPROTO")
ENOTCONN == Errno("ENOTCONN")
ENOTSUP == Errno("ENOTSUP")
ENODEV == Errno("ENODEV")

(* ---------------- bit operations on unsigned bytes and words ----------- *)
RECURSIVE XorBits(_, _, _)
XorBits(a, b, n) ==
    IF n = 0 THEN 0
    ELSE ((a + b) % 2) + 2 * XorBits(a \div 2, b \div 2, n - 1)
RECURSIVE AndBits(_, _, _)
AndBits(a, b, n) ==
    IF n = 0 THEN 0
    ELSE ((a % 2) * (b % 2)) + 2 * AndBits(a \div 2, b \div 2, n - 1)
RECURSIVE OrBits(_, _, _)
OrBits(a, b, n) ==
    IF n = 0 THEN 0
    ELSE (IF a % 2 = 1 \/ b % 2 = 1 THEN 1 ELSE 0)
         + 2 * OrBits(a \div 2, b \div 2, n - 1)
\* a function computed once and kept as a table
Stored(f) == f @@ << >>
\* F of the value of v, with v computed once
With(v, F(_)) == CHOOSE r \in {F(x) : x \in {v}} : TRUE
Xor8Tab ==
    Stored([a \in 0..255 |-> Stored([b \in 0..255 |-> XorBits(a, b, 8)])])
Xor16(a, b) ==
    Xor8Tab[a \div 256][b \div 256] * 256 + Xor8Tab[a % 256][b % 256]
And8(a, b) == AndBits(a, b, 8)
Or8(a, b) == OrBits(a, b, 8)
Or16(a, b) == OrBits(a, b, 16)

(* ---------------- dlms_hdlc.h ------------------------------------------ *)
HDLC_FLAG == 126  \* 0x7E
HDLC_FORMAT_TYPE == 160  \* 0xA0
HDLC_MAX_INFO_LEN == 256
HDLC_MAX_FRAME_LEN == 300
HDLC_CTRL_SNRM == 147  \* 0x93
HDLC_CTRL_UA == 115  \* 0x73
HDLC_CTRL_DISC == 83  \* 0x53
HDLC_CTRL_DM == 31  \* 0x1F
\* (((recv_seq) << 5) | ((pf) ? 0x10 : 0x00) | ((send_seq) << 1)), stored in
\* a uint8_t
HDLC_CTRL_I_FRAME(send_seq, recv_seq, pf) ==
    Or16(Or16(recv_seq * 32, IF pf THEN 16 ELSE 0), send_seq * 2) % 256
HDLC_CLIENT_ADDR(logical_addr) == Or16(logical_addr * 2, 1) % 256
HDLC_SERVER_ADDR_1B(logical_addr) == Or16(logical_addr * 2, 1) % 256

(* ---------------- dlms_hdlc.c ------------------------------------------ *)
crc16_table ==
  <<
    \h0000, \h1189, \h2312, \h329B, \h4624, \h57AD, \h6536, \h74BF,
    \h8C48, \h9DC1, \hAF5A, \hBED3, \hCA6C, \hDBE5, \hE97E, \hF8F7,
    \h1081, \h0108, \h3393, \h221A, \h56A5, \h472C, \h75B7, \h643E,
    \h9CC9, \h8D40, \hBFDB, \hAE52, \hDAED, \hCB64, \hF9FF, \hE876,
    \h2102, \h308B, \h0210, \h1399, \h6726, \h76AF, \h4434, \h55BD,
    \hAD4A, \hBCC3, \h8E58, \h9FD1, \hEB6E, \hFAE7, \hC87C, \hD9F5,
    \h3183, \h200A, \h1291, \h0318, \h77A7, \h662E, \h54B5, \h453C,
    \hBDCB, \hAC42, \h9ED9, \h8F50, \hFBEF, \hEA66, \hD8FD, \hC974,
    \h4204, \h538D, \h6116, \h709F, \h0420, \h15A9, \h2732, \h36BB,
    \hCE4C, \hDFC5, \hED5E, \hFCD7, \h8868, \h99E1, \hAB7A, \hBAF3,
    \h5285, \h430C, \h7197, \h601E, \h14A1, \h0528, \h37B3, \h263A,
    \hDECD, \hCF44, \hFDDF, \hEC56, \h98E9, \h8960, \hBBFB, \hAA72,
    \h6306, \h728F, \h4014, \h519D, \h2522, \h34AB, \h0630, \h17B9,
    \hEF4E, \hFEC7, \hCC5C, \hDDD5, \hA96A, \hB8E3, \h8A78, \h9BF1,
    \h7387, \h620E, \h5095, \h411C, \h35A3, \h242A, \h16B1, \h0738,
    \hFFCF, \hEE46, \hDCDD, \hCD54, \hB9EB, \hA862, \h9AF9, \h8B70,
    \h8408, \h9581, \hA71A, \hB693, \hC22C, \hD3A5, \hE13E, \hF0B7,
    \h0840, \h19C9, \h2B52, \h3ADB, \h4E64, \h5FED, \h6D76, \h7CFF,
    \h9489, \h8500, \hB79B, \hA612, \hD2AD, \hC324, \hF1BF, \hE036,
    \h18C1, \h0948, \h3BD3, \h2A5A, \h5EE5, \h4F6C, \h7DF7, \h6C7E,
    \hA50A, \hB483, \h8618, \h9791, \hE32E, \hF2A7, \hC03C, \hD1B5,
    \h2942, \h38CB, \h0A50, \h1BD9, \h6F66, \h7EEF, \h4C74, \h5DFD,
    \hB58B, \hA402, \h9699, \h8710, \hF3AF, \hE226, \hD0BD, \hC134,
    \h39C3, \h284A, \h1AD1, \h0B58, \h7FE7, \h6E6E, \h5CF5, \h4D7C,
    \hC60C, \hD785, \hE51E, \hF497, \h8028, \h91A1, \hA33A, \hB2B3,
    \h4A44, \h5BCD, \h6956, \h78DF, \h0C60, \h1DE9, \h2F72, \h3EFB,
    \hD68D, \hC704, \hF59F, \hE416, \h90A9, \h8120, \hB3BB, \hA232,
    \h5AC5, \h4B4C, \h79D7, \h685E, \h1CE1, \h0D68, \h3FF3, \h2E7A,
    \hE70E, \hF687, \hC41C, \hD595, \hA12A, \hB0A3, \h8238, \h93B1,
    \h6B46, \h7ACF, \h4854, \h59DD, \h2D62, \h3CEB, \h0E70, \h1FF9,
    \hF78F, \hE606, \hD49D, \hC514, \hB1AB, \hA022, \h92B9, \h8330,
    \h7BC7, \h6A4E, \h58D5, \h495C, \h3DE3, \h2C6A, \h1EF1, \h0F78
  >>

RECURSIVE crc16_loop(_, _, _, _)
\* the for loop of hdlc_crc16 over the bytes data[from .. from+len-1] (TLA+
\* indices), started with crc: the first half of the bytes, then the rest
crc16_loop(crc, data, from, len) ==
    IF len = 0 THEN crc
    ELSE IF len = 1
    THEN Xor16(crc \div 256, crc16_table[Xor8Tab[crc % 256][data[from]] + 1])
    ELSE With(crc16_loop(crc, data, from, len \div 2),
              LAMBDA mid :
                crc16_loop(mid, data, from + (len \div 2),
                           len - (len \div 2)))

\* hdlc_crc16(&data[off], len) with off a C index
hdlc_crc16(data, off, len) ==
    With(<< data, off, len >>,
         LAMBDA a :
           With(crc16_loop(65535, a[1], a[2] + 1, a[3]),
                LAMBDA crc : Xor16(crc, 65535)))

\* build_header: ret is 6 and buf the six header bytes, or ret is -ENOMEM and
\* nothing is written
build_header(buf_size, dst_addr, src_addr, control, has_info, info_len) ==
    With((IF has_info THEN (2 + 1 + 1 + 1) + 2 + info_len + 2
                      ELSE (2 + 1 + 1 + 1) + 2) % 65536,
         LAMBDA frame_len :
           IF frame_len + 2 > buf_size
           THEN [ret |-> 0 - ENOMEM, buf |-> << >>]
           ELSE [ret |-> 6,
                 buf |-> << HDLC_FLAG,
                            Or8(HDLC_FORMAT_TYPE,
                                And8(frame_len \div 256, 7)),
                            frame_len % 256,
                            dst_addr, src_addr, control >>])

\* the two checksum bytes, high byte first
CrcBytesHighFirst(c) == With(c, LAMBDA v : << (v \div 256) % 256, v % 256 >>)
\* the two checksum bytes, low byte first
CrcBytes(c) == With(c, LAMBDA v : << v % 256, (v \div 256) % 256 >>)

HdlcNoParams == [present |-> FALSE]

\* the SNRM information field built from the negotiation parameters
snrm_info(params) ==
    LET tx == IF params.max_info_tx <= 255
              THEN << 5, 1, params.max_info_tx % 256 >>
              ELSE << 5, 2, (params.max_info_tx \div 256) % 256,
                      params.max_info_tx % 256 >>
        rx == IF params.max_info_rx <= 255
              THEN << 6, 1, params.max_info_rx % 256 >>
              ELSE << 6, 2, (params.max_info_rx \div 256) % 256,
                      params.max_info_rx % 256 >>
    IN  With(tx \o rx \o << 7, 1, params.window_tx >>
                \o << 8, 1, params.window_rx >>,
             LAMBDA body : << \h81, \h80, Len(body) >> \o body)

\* the frame so far with the checksum of its bytes after the opening flag
\* appended
WithCrc(b) == b \o CrcBytes(hdlc_crc16(b, 1, Len(b) - 1))

hdlc_build_snrm(buf_size, client_addr, server_addr, params) ==
    With(IF params.present THEN snrm_info(params) ELSE << >>,
         LAMBDA info :
           With(build_header(buf_size, server_addr, client_addr,
                             HDLC_CTRL_SNRM, params.present, Len(info)),
                LAMBDA h :
                  IF h.ret < 0 THEN h
                  ELSE With(WithCrc(h.buf),
                            LAMBDA b1 :
                              With((IF params.present
                                    THEN With(b1 \o info,
                                              LAMBDA b : WithCrc(b))
                                    ELSE b1) \o << HDLC_FLAG >>,
                                   LAMBDA b3 :
                                     [ret |-> Len(b3), buf |-> b3]))))

\* a builder that puts the SNRM control byte into the frame
hdlc_build_disc_snrm_ctrl(buf_size, client_addr, server_addr) ==
    hdlc_build_snrm(buf_size, client_addr, server_addr, HdlcNoParams)

hdlc_build_disc(buf_size, client_addr, server_addr) ==
    With(build_header(buf_size, server_addr, client_addr,
                      HDLC_CTRL_DISC, FALSE, 0),
         LAMBDA h :
           IF h.ret < 0 THEN h
           ELSE With(WithCrc(h.buf) \o << HDLC_FLAG >>,
                     LAMBDA b : [ret |-> Len(b), buf |-> b]))

\* a pointer to bytes in memory, and the NULL pointer
Ptr(b) == [null |-> FALSE, mem |-> b]
NullPtr == [null |-> TRUE, mem |-> << >>]

\* a builder that writes the frame header before it looks at its arguments
hdlc_build_iframe_writes_first(buf_size, client_addr, server_addr, send_seq, recv_seq, info, info_len) ==
    With(build_header(HDLC_MAX_FRAME_LEN, server_addr, client_addr,
                      HDLC_CTRL_I_FRAME(send_seq, recv_seq, TRUE),
                      TRUE, 1),
         LAMBDA h0 :
           IF info.null \/ info_len = 0 \/ info_len > HDLC_MAX_INFO_LEN
           THEN [ret |-> 0 - EINVAL, buf |-> h0.buf]
           ELSE With(build_header(buf_size, server_addr, client_addr,
                                  HDLC_CTRL_I_FRAME(send_seq, recv_seq, TRUE),
                                  TRUE, info_len),
                     LAMBDA h :
                       IF h.ret < 0 THEN [h EXCEPT !.buf = h0.buf]
                       ELSE With(WithCrc(h.buf)
                                   \o SubSeq(info.mem, 1, info_len),
                                 LAMBDA b1 :
                                   With(WithCrc(b1) \o << HDLC_FLAG >>,
                                        LAMBDA b2 :
                                          [ret |-> Len(b2), buf |-> b2]))))
\* info is a pointer and info_len the number of bytes to take from it; buf is
\* what the call has written to the output buffer
hdlc_build_iframe(buf_size, client_addr, server_addr, send_seq, recv_seq, info, info_len) ==
    IF info.null \/ info_len = 0 \/ info_len > HDLC_MAX_INFO_LEN
    THEN [ret |-> 0 - EINVAL, buf |-> << >>]
    ELSE With(build_header(buf_size, server_addr, client_addr,
                           HDLC_CTRL_I_FRAME(send_seq, recv_seq, TRUE),
                           TRUE, info_len),
              LAMBDA h :
                IF h.ret < 0 THEN h
                ELSE With(WithCrc(h.buf) \o SubSeq(info.mem, 1, info_len),
                          LAMBDA b1 :
                            With(WithCrc(b1) \o << HDLC_FLAG >>,
                                 LAMBDA b2 : [ret |-> Len(b2), buf |-> b2])))

\* struct hdlc_frame after memset(frame, 0, sizeof(*frame))
ZeroFrame ==
    [dst_addr |-> 0, src_addr |-> 0, control |-> 0, info |-> << >>,
     info_len |-> 0, segmented |-> FALSE, valid |-> FALSE]

\* a parser that takes the information field without checking the FCS
parse_checks_no_fcs(data, len, f1) ==
    IF hdlc_crc16(data, 1, 5) # Or16(data[7], data[8] * 256)
    THEN [ret |-> 0 - EIO, frame |-> f1]
    ELSE IF len > 9
    THEN IF len - 9 - 2 < 0 \/ len - 9 - 2 > HDLC_MAX_INFO_LEN
         THEN [ret |-> 0 - ENOMEM,
               frame |-> [f1 EXCEPT !.info_len = (len - 9 - 2) % 65536]]
         ELSE [ret |-> 0,
               frame |-> [f1 EXCEPT !.info_len = len - 9 - 2,
                                    !.info = SubSeq(data, 9,
                                                    8 + (len - 9 - 2)),
                                    !.valid = TRUE]]
    ELSE [ret |-> 0, frame |-> [f1 EXCEPT !.valid = TRUE]]
\* hdlc_parse_frame from the header check sequence on; f1 is the frame with
\* the address and control fields stored
parse_checks(data, len, f1) ==
    IF hdlc_crc16(data, 1, 5) # Or16(data[7], data[8] * 256)
    THEN [ret |-> 0 - EIO, frame |-> f1]
    ELSE IF len > 9
    THEN \* len is 10 makes the uint16_t info_len 65535
         IF len - 9 - 2 < 0 \/ len - 9 - 2 > HDLC_MAX_INFO_LEN
         THEN [ret |-> 0 - ENOMEM,
               frame |-> [f1 EXCEPT !.info_len = (len - 9 - 2) % 65536]]
         ELSE With([f1 EXCEPT !.info_len = len - 9 - 2,
                              !.info = SubSeq(data, 9, 8 + (len - 9 - 2))],
                LAMBDA f2 :
                  IF hdlc_crc16(data, 1, len - 4)
                       # Or16(data[len - 2], data[len - 1] * 256)
                  THEN [ret |-> 0 - EIO, frame |-> f2]
                  ELSE [ret |-> 0, frame |-> [f2 EXCEPT !.valid = TRUE]])
    ELSE [ret |-> 0, frame |-> [f1 EXCEPT !.valid = TRUE]]

\* a parser that refuses a frame whose length field is not its length
hdlc_parse_frame_strict(data) ==
    With(data,
      LAMBDA d :
        IF Len(d) < 9 THEN [ret |-> 0 - EINVAL, frame |-> ZeroFrame]
        ELSE IF d[1] # HDLC_FLAG \/ d[Len(d)] # HDLC_FLAG
        THEN [ret |-> 0 - EINVAL, frame |-> ZeroFrame]
        ELSE IF And8(d[2], \hF0) # HDLC_FORMAT_TYPE
        THEN [ret |-> 0 - EINVAL, frame |-> ZeroFrame]
        ELSE IF And8(d[2], 7) * 256 + d[3] + 2 # Len(d)
        THEN [ret |-> 0 - EINVAL,
              frame |-> [ZeroFrame EXCEPT !.segmented = (And8(d[2], 8) # 0)]]
        ELSE With([ZeroFrame EXCEPT
                     !.segmented = (And8(d[2], 8) # 0),
                     !.dst_addr = d[4],
                     !.src_addr = d[5],
                     !.control = d[6]],
               LAMBDA f1 : parse_checks(d, Len(d), f1)))
\* hdlc_parse_frame(data, len, frame) with data the len bytes handed in
hdlc_parse_frame(data) ==
    With(data,
      LAMBDA d :
        IF Len(d) < 9 THEN [ret |-> 0 - EINVAL, frame |-> ZeroFrame]
        ELSE IF d[1] # HDLC_FLAG \/ d[Len(d)] # HDLC_FLAG
        THEN [ret |-> 0 - EINVAL, frame |-> ZeroFrame]
        ELSE IF And8(d[2], \hF0) # HDLC_FORMAT_TYPE
        THEN [ret |-> 0 - EINVAL, frame |-> ZeroFrame]
        ELSE With([ZeroFrame EXCEPT
                     !.segmented = (And8(d[2], 8) # 0),
                     !.dst_addr = d[4],
                     !.src_addr = d[5],
                     !.control = d[6]],
               LAMBDA f1 : parse_checks(d, Len(d), f1)))

\* the smallest C index i >= from with i >= len or data[i] of the wanted kind
ScanWhile(data, from, untilFlag) ==
    With({i \in from..(Len(data) - 1) :
            (data[i + 1] = HDLC_FLAG) = untilFlag},
      LAMBDA stops :
        IF stops = {} THEN Len(data)
        ELSE CHOOSE i \in stops : \A m \in stops : i <= m)

\* hdlc_find_frame(data, len, &frame_start, &frame_len)
hdlc_find_frame(data) ==
    With(data,
      LAMBDA d :
        IF Len(d) < 2
        THEN [ret |-> 0 - EINVAL, frame_start |-> 0, frame_len |-> 0]
        ELSE With(ScanWhile(d, 0, TRUE),
               LAMBDA first :
                 IF first >= Len(d)
                 THEN [ret |-> 0 - EAGAIN, frame_start |-> 0, frame_len |-> 0]
                 ELSE \* skip consecutive flags: e1 is the first non-flag
                      \* after the run
                      With(ScanWhile(d, first + 1, FALSE),
                        LAMBDA e1 :
                          With(ScanWhile(d, e1, TRUE),
                            LAMBDA end :
                              IF end >= Len(d)
                              THEN [ret |-> 0 - EAGAIN, frame_start |-> 0,
                                    frame_len |-> 0]
                              ELSE [ret |-> 0, frame_start |-> e1 - 1,
                                    frame_len |-> end - (e1 - 1) + 1]))))

(* ---------------- dlms_cosem.h ----------------------------------------- *)
COSEM_TAG_AARQ == 96  \* 0x60
COSEM_TAG_AARE == 97  \* 0x61
COSEM_TAG_GET_REQUEST == 192  \* 0xC0
COSEM_TAG_GET_RESPONSE == 196  \* 0xC4
COSEM_TAG_RLRQ == 98  \* 0x62
GET_REQUEST_NORMAL == 1  \* 0x01
GET_RESPONSE_NORMAL == 1  \* 0x01
GET_RESPONSE_WITH_DATABLOCK == 2  \* 0x02
COSEM_TYPE_NULL_DATA == 0  \* 0x00
COSEM_TYPE_BOOLEAN == 3  \* 0x03
COSEM_TYPE_INT8 == 15  \* 0x0F
COSEM_TYPE_UINT8 == 17  \* 0x11
COSEM_TYPE_INT16 == 16  \* 0x10
COSEM_TYPE_UINT16 == 18  \* 0x12
COSEM_TYPE_INT32 == 5  \* 0x05
COSEM_TYPE_UINT32 == 6  \* 0x06
COSEM_TYPE_INT64 == 20  \* 0x14
COSEM_TYPE_UINT64 == 21  \* 0x15
COSEM_TYPE_FLOAT32 == 23  \* 0x17
COSEM_TYPE_FLOAT64 == 24  \* 0x18
COSEM_TYPE_OCTET_STRING == 9  \* 0x09
COSEM_TYPE_VISIBLE_STRING == 10  \* 0x0A
COSEM_TYPE_ENUM == 22  \* 0x16
COSEM_TYPE_STRUCTURE == 2  \* 0x02
COSEM_TYPE_ARRAY == 1  \* 0x01
\* sizeof(result->value.raw.data)
RAW_DATA_SIZE == 128

(* ---------------- dlms_cosem.c ----------------------------------------- *)
app_context_ln == << \h60, \h85, \h74, \h05, \h08, \h01, \h01 >>

initiate_request ==
    << \h01, \h00, \h00, \h00, \h06, \h5F, \h1F, \h04, \h00,
       \h00, \h18, \h1D, \h00, \h80 >>

\* cosem_build_aarq(buf, buf_size, password, pass_len); a NULL password is
\* the empty sequence.  The function does not check its writes against
\* buf_size beyond the first test.
cosem_build_aarq(buf_size, password) ==
    IF buf_size < 64 THEN [ret |-> 0 - EINVAL, buf |-> << >>]
    ELSE
    LET pass_len == Len(password)
        ctx == << \hA1, \h09, \h06, \h07 >> \o app_context_ln
        auth == IF pass_len > 0
                THEN << \h8A, \h02, \h07, \h80,
                        \h8B, \h07, \h60, \h85, \h74, \h05, \h08, \h02, \h01,
                        \hAC, (pass_len + 2) % 256, \h80, pass_len % 256 >>
                     \o password
                ELSE << >>
        user == << \hBE, (Len(initiate_request) + 2) % 256,
                   \h04, Len(initiate_request) % 256 >> \o initiate_request
        body == ctx \o auth \o user
        pdu == << COSEM_TAG_AARQ, Len(body) % 256 >> \o body
    IN  [ret |-> Len(pdu), buf |-> pdu]

\* The for loop of cosem_parse_aare from C index i.  mem is the memory from
\* data[0] on, as far as it is known; unbounded is TRUE when len - 4 wrapped
\* to a huge size_t, so that only the memory ends the scan.  A read past the
\* known memory is a fault.  The loop stops at the first index where the
\* four tag bytes match or where one of the reads of the && chain falls
\* outside the memory.
aare_scan(mem, i, len, unbounded) ==
    LET n == Len(mem)
        \* the reads of the && chain at index k that come before byte j
        before(k, j) ==
            \A m \in 0..(j - 1) :
                k + m < n /\ mem[k + m + 1] = << \hA2, \h03, \h02, \h01 >>[m + 1]
        faults(k) == \E j \in 0..3 : before(k, j) /\ k + j >= n
        hits(k) == before(k, 4)
        last == IF unbounded THEN n ELSE len - 5
    IN  With({k \in i..last : hits(k) \/ faults(k)},
             LAMBDA stops :
               IF stops = {} THEN [ret |-> 0 - EPROTO, fault |-> FALSE]
               ELSE With(CHOOSE k \in stops : \A m \in stops : k <= m,
                         LAMBDA k0 :
                           IF faults(k0) \/ k0 + 4 >= n
                           THEN [ret |-> 0, fault |-> TRUE]
                           ELSE IF mem[k0 + 5] = 0
                           THEN [ret |-> 0, fault |-> FALSE]
                           ELSE [ret |-> 0 - EACCES, fault |-> FALSE]))

\* cosem_parse_aare(data, len): mem holds the len bytes of the PDU followed by
\* whatever lies behind them in memory
cosem_parse_aare(mem, len) ==
    IF len < 3 THEN [ret |-> 0 - EINVAL, fault |-> FALSE]
    ELSE With(mem,
              LAMBDA m :
                IF m[1] # COSEM_TAG_AARE
                THEN [ret |-> 0 - EPROTO, fault |-> FALSE]
                ELSE aare_scan(m, 2, len, len < 4))

\* a builder that writes the class id low byte first
cosem_build_get_request_le(buf_size, invoke_id, attr) ==
    IF buf_size < 16 THEN [ret |-> 0 - EINVAL, buf |-> << >>]
    ELSE LET pdu == << COSEM_TAG_GET_REQUEST, GET_REQUEST_NORMAL, invoke_id,
                       attr.class_id % 256, (attr.class_id \div 256) % 256 >>
                    \o attr.obis
                    \o << (attr.attribute_id + 256) % 256, \h00 >>
         IN  [ret |-> Len(pdu), buf |-> pdu]
\* struct obis_code as the sequence <<a, b, c, d, e, f>>; attribute_id is an
\* int8_t stored into a byte
cosem_build_get_request(buf_size, invoke_id, attr) ==
    IF buf_size < 16 THEN [ret |-> 0 - EINVAL, buf |-> << >>]
    ELSE LET pdu == << COSEM_TAG_GET_REQUEST, GET_REQUEST_NORMAL, invoke_id,
                       (attr.class_id \div 256) % 256, attr.class_id % 256 >>
                    \o attr.obis
                    \o << (attr.attribute_id + 256) % 256, \h00 >>
         IN  [ret |-> Len(pdu), buf |-> pdu]

\* The 8 bytes of the value union, most significant byte first: u64, i64
\* and f64 are three readings of the same bytes.
Zero8 == << 0, 0, 0, 0, 0, 0, 0, 0 >>
\* n bytes b widened to 8 bytes with zeros, whatever the sign
WidenUnsigned(b, signed) == [k \in 1..(8 - Len(b)) |-> 0] \o b
\* n bytes b (big-endian) widened to 8 bytes, sign-extended when signed
Widen(b, signed) ==
    LET fill == IF signed /\ b[1] >= 128 THEN 255 ELSE 0
    IN  [k \in 1..(8 - Len(b)) |-> fill] \o b

\* struct cosem_get_result after memset(result, 0, sizeof(*result)); rep
\* names the union member last written: "int" (u64/i64/f64 bit pattern in
\* bits), "f32" (the double converted from the float whose 4 bytes are in
\* bits) or "raw" (raw.data, raw.len)
ZeroResult ==
    [success |-> FALSE, data_type |-> 0, rep |-> "int", bits |-> Zero8,
     raw |-> << >>]

\* cosem_decode_data(data, len, result): data holds exactly len bytes
\* The INT64 loop shifts the signed value.i64 left by 8 bits; the compilers
\* this code is built with give the shifted two's complement bits, so the 8
\* bytes arrive in the union as they are in data.
cosem_decode_data(data, result) ==
    LET len == Len(data)
        nodata == [ret |-> 0 - ENODATA,
                   result |-> [result EXCEPT !.data_type = data[1]]]
        int(n, signed) ==
            IF len < n + 1 THEN nodata
            ELSE [ret |-> n + 1,
                  result |-> [result EXCEPT
                     !.data_type = data[1], !.rep = "int",
                     !.bits = Widen(SubSeq(data, 2, n + 1), signed)]]
    IN  IF len < 1 THEN [ret |-> 0 - EINVAL, result |-> result]
        ELSE CASE data[1] = COSEM_TYPE_NULL_DATA ->
                    [ret |-> 1,
                     result |-> [result EXCEPT !.data_type = data[1],
                                    !.rep = "int", !.bits = Zero8]]
               [] data[1] \in {COSEM_TYPE_BOOLEAN, COSEM_TYPE_UINT8,
                               COSEM_TYPE_ENUM} -> int(1, FALSE)
               [] data[1] = COSEM_TYPE_INT8 -> int(1, TRUE)
               [] data[1] = COSEM_TYPE_UINT16 -> int(2, FALSE)
               [] data[1] = COSEM_TYPE_INT16 -> int(2, TRUE)
               [] data[1] = COSEM_TYPE_UINT32 -> int(4, FALSE)
               [] data[1] = COSEM_TYPE_INT32 -> int(4, TRUE)
               [] data[1] \in {COSEM_TYPE_UINT64, COSEM_TYPE_INT64,
                               COSEM_TYPE_FLOAT64} -> int(8, FALSE)
               [] data[1] = COSEM_TYPE_FLOAT32 ->
                    IF len < 5 THEN nodata
                    ELSE [ret |-> 5,
                          result |-> [result EXCEPT
                             !.data_type = COSEM_TYPE_FLOAT32, !.rep = "f32",
                             !.bits = SubSeq(data, 2, 5)]]
               [] data[1] \in {COSEM_TYPE_OCTET_STRING,
                               COSEM_TYPE_VISIBLE_STRING} ->
                    IF len < 2 THEN nodata
                    ELSE IF len < 2 + data[2] THEN nodata
                    ELSE LET slen == data[2]
                             copy_len == IF slen > RAW_DATA_SIZE
                                         THEN RAW_DATA_SIZE ELSE slen
                         IN  [ret |-> 2 + slen,
                              result |-> [result EXCEPT
                                 !.data_type = data[1], !.rep = "raw",
                                 !.raw = SubSeq(data, 3, 2 + copy_len)]]
               [] data[1] \in {COSEM_TYPE_STRUCTURE, COSEM_TYPE_ARRAY} ->
                    int(1, FALSE)
               [] OTHER ->
                    [ret |-> 0 - ENOTSUP,
                     result |-> [result EXCEPT !.data_type = data[1]]]

\* a parser of GET.response that turns down every invoke-id byte but C1
\* and decodes nothing
cosem_parse_get_response_checks_id(data, result) ==
    IF Len(data) >= 4 /\ data[3] # \hC1
    THEN [ret |-> 0 - EPROTO, result |-> ZeroResult]
    ELSE [ret |-> 0 - EINVAL, result |-> result]
\* cosem_parse_get_response(data, len, result): data holds exactly len
\* bytes; below 4 bytes the result is left as the caller passed it
cosem_parse_get_response(data, result) ==
    LET len == Len(data)
    IN  IF len < 4 THEN [ret |-> 0 - EINVAL, result |-> result]
        ELSE IF data[1] # COSEM_TAG_GET_RESPONSE
        THEN [ret |-> 0 - EPROTO, result |-> ZeroResult]
        ELSE IF data[2] = GET_RESPONSE_NORMAL
        THEN IF data[4] = \h00
             THEN With(cosem_decode_data(SubSeq(data, 5, len), ZeroResult),
                       LAMBDA d :
                         IF d.ret < 0 THEN [ret |-> d.ret, result |-> d.result]
                         ELSE [ret |-> 0,
                               result |-> [d.result EXCEPT
                                             !.success = TRUE]])
             ELSE IF data[4] = \h01
             THEN [ret |-> 0 - EACCES, result |-> ZeroResult]
             ELSE [ret |-> 0 - EPROTO, result |-> ZeroResult]
        ELSE IF data[2] = GET_RESPONSE_WITH_DATABLOCK
        THEN [ret |-> 0 - ENOTSUP, result |-> ZeroResult]
        ELSE [ret |-> 0 - EPROTO, result |-> ZeroResult]

cosem_build_rlrq(buf_size) ==
    IF buf_size < 3 THEN [ret |-> 0 - EINVAL, buf |-> << >>]
    ELSE [ret |-> 2, buf |-> << COSEM_TAG_RLRQ, \h00 >>]

(* ---------------- dlms_meter.h ----------------------------------------- *)
METER_DISCONNECTED == 0
METER_HDLC_CONNECTED == 1
METER_ASSOCIATED == 2
METER_ERROR == 3

(* ---------------- dlms_meter.c: tables and bounds ---------------------- *)
\* the 27 rows of obis_table; offset names the field of struct
\* meter_readings the row writes
obis_table_rows ==
  <<
    [obis |-> <<1, 1, 32, 7, 0, 255>>, class_id |-> 3, name |-> "Voltage_R", offset |-> "voltage_r"],
    [obis |-> <<1, 1, 31, 7, 0, 255>>, class_id |-> 3, name |-> "Current_R", offset |-> "current_r"],
    [obis |-> <<1, 1, 21, 7, 0, 255>>, class_id |-> 3, name |-> "ActivePower_R", offset |-> "active_power_r"],
    [obis |-> <<1, 1, 23, 7, 0, 255>>, class_id |-> 3, name |-> "ReactivePower_R", offset |-> "reactive_power_r"],
    [obis |-> <<1, 1, 29, 7, 0, 255>>, class_id |-> 3, name |-> "ApparentPower_R", offset |-> "apparent_power_r"],
    [obis |-> <<1, 1, 33, 7, 0, 255>>, class_id |-> 3, name |-> "PowerFactor_R", offset |-> "power_factor_r"],
    [obis |-> <<1, 1, 52, 7, 0, 255>>, class_id |-> 3, name |-> "Voltage_S", offset |-> "voltage_s"],
    [obis |-> <<1, 1, 51, 7, 0, 255>>, class_id |-> 3, name |-> "Current_S", offset |-> "current_s"],
    [obis |-> <<1, 1, 41, 7, 0, 255>>, class_id |-> 3, name |-> "ActivePower_S", offset |-> "active_power_s"],
    [obis |-> <<1, 1, 43, 7, 0, 255>>, class_id |-> 3, name |-> "ReactivePower_S", offset |-> "reactive_power_s"],
    [obis |-> <<1, 1, 49, 7, 0, 255>>, class_id |-> 3, name |-> "ApparentPower_S", offset |-> "apparent_power_s"],
    [obis |-> <<1, 1, 53, 7, 0, 255>>, class_id |-> 3, name |-> "PowerFactor_S", offset |-> "power_factor_s"],
    [obis |-> <<1, 1, 72, 7, 0, 255>>, class_id |-> 3, name |-> "Voltage_T", offset |-> "voltage_t"],
    [obis |-> <<1, 1, 71, 7, 0, 255>>, class_id |-> 3, name |-> "Current_T", offset |-> "current_t"],
    [obis |-> <<1, 1, 61, 7, 0, 255>>, class_id |-> 3, name |-> "ActivePower_T", offset |-> "active_power_t"],
    [obis |-> <<1, 1, 63, 7, 0, 255>>, class_id |-> 3, name |-> "ReactivePower_T", offset |-> "reactive_power_t"],
    [obis |-> <<1, 1, 69, 7, 0, 255>>, class_id |-> 3, name |-> "ApparentPower_T", offset |-> "apparent_power_t"],
    [obis |-> <<1, 1, 73, 7, 0, 255>>, class_id |-> 3, name |-> "PowerFactor_T", offset |-> "power_factor_t"],
    [obis |-> <<1, 1, 1, 7, 0, 255>>, class_id |-> 3, name |-> "TotalActivePower", offset |-> "total_active_power"],
    [obis |-> <<1, 1, 3, 7, 0, 255>>, class_id |-> 3, name |-> "TotalReactivePower", offset |-> "total_reactive_power"],
    [obis |-> <<1, 1, 9, 7, 0, 255>>, class_id |-> 3, name |-> "TotalApparentPower", offset |-> "total_apparent_power"],
    [obis |-> <<1, 1, 13, 7, 0, 255>>, class_id |-> 3, name |-> "TotalPowerFactor", offset |-> "total_power_factor"],
    [obis |-> <<1, 1, 1, 8, 0, 255>>, class_id |-> 3, name |-> "ActiveEnergy", offset |-> "active_energy"],
    [obis |-> <<1, 1, 3, 8, 0, 255>>, class_id |-> 3, name |-> "ReactiveEnergy", offset |-> "reactive_energy"],
    [obis |-> <<1, 1, 9, 8, 0, 255>>, class_id |-> 3, name |-> "ApparentEnergy", offset |-> "apparent_energy"],
    [obis |-> <<1, 1, 14, 7, 0, 255>>, class_id |-> 3, name |-> "Frequency", offset |-> "frequency"],
    [obis |-> <<1, 1, 91, 7, 0, 255>>, class_id |-> 3, name |-> "NeutralCurrent", offset |-> "neutral_current"]
  >>

\* The model polls the first TableBound rows of the table.
TableBound == 2
obis_table == SubSeq(obis_table_rows, 1, TableBound)
OBIS_TABLE_SIZE == Len(obis_table)
Entries == 1..OBIS_TABLE_SIZE

LLC_HDR_LEN == 3
llc_send_hdr == << \hE6, \hE6, \h00 >>

\* sizes of the local PDU buffers
AARQ_PDU_SIZE == 128
RLRQ_PDU_SIZE == 8
GET_PDU_SIZE == 32

(* ---------------- dlms_meter.c: configuration -------------------------- *)
\* struct meter_config; password holds the strlen(password) bytes of the
\* string.  cfg is a zero-initialised static until set_defaults runs.
ZeroCfg ==
    [client_sap |-> 0, server_logical |-> 0, server_physical |-> 0,
     password |-> << >>, max_info_len |-> 0, response_timeout_ms |-> 0,
     inter_frame_delay_ms |-> 0]
\* set_defaults(); "22222222" is eight bytes 0x32
set_defaults ==
    [client_sap |-> 1, server_logical |-> 0, server_physical |-> 1,
     password |-> << \h32, \h32, \h32, \h32, \h32, \h32, \h32, \h32 >>,
     max_info_len |-> 128, response_timeout_ms |-> 5000,
     inter_frame_delay_ms |-> 30]
\* a configuration a caller may install: its server address needs the
\* 2-byte encoding, its password fills the 16-byte field up to the NUL
CustomCfg ==
    [client_sap |-> 16, server_logical |-> 1, server_physical |-> 17,
     password |-> [k \in 1..15 |-> \h41],
     max_info_len |-> 128, response_timeout_ms |-> 3000,
     inter_frame_delay_ms |-> 100]

(* ---------------- rs485_uart.c: the receive ring ------------------------ *)
\* RS485_RX_BUF_SIZE is 512 in the source; the ring of the model has
\* RingBound cells, numbered from 0
RingBound == 4
RS485_RX_BUF_SIZE == RingBound
RingCells == 0..(RS485_RX_BUF_SIZE - 1)
\* an interrupt handler that stores the byte also when the ring is full
uart_isr_cb_overwrites(ring, head, tail, byte) ==
    [ring |-> [ring EXCEPT ![head] = byte],
     head |-> (head + 1) % RS485_RX_BUF_SIZE]
\* uart_isr_cb for one byte read from the FIFO: [ring, head]
uart_isr_cb(ring, head, tail, byte) ==
    With((head + 1) % RS485_RX_BUF_SIZE,
      LAMBDA next :
        IF next # tail
        THEN [ring |-> [ring EXCEPT ![head] = byte], head |-> next]
        ELSE [ring |-> ring, head |-> head])
\* rs485_recv: the peek of one pass of the polling loop
recv_frame_complete(ring, head, tail) ==
    With(IF head >= tail THEN head - tail
         ELSE RS485_RX_BUF_SIZE - tail + head,
      LAMBDA avail :
        /\ avail >= 2
        /\ ring[(head + RS485_RX_BUF_SIZE - 1) % RS485_RX_BUF_SIZE]
             = HDLC_FLAG)
RECURSIVE recv_copy(_, _, _, _, _)
\* rs485_recv: the copy loop, buf holding the count bytes copied so far:
\* [buf, tail]
recv_copy(ring, head, tail, buf, buf_size) ==
    IF tail # head /\ Len(buf) < buf_size
    THEN recv_copy(ring, head, (tail + 1) % RS485_RX_BUF_SIZE,
                   Append(buf, ring[tail]), buf_size)
    ELSE [buf |-> buf, tail |-> tail]
(* ---------------- the transport, as the orchestrator sees it ----------- *)
\* rs485_send: fails only without a device (rs485_init never called) or
\* with nothing to send
rs485_send(s, data) ==
    IF ~s.uart_dev \/ Len(data) = 0 THEN 0 - EINVAL ELSE Len(data)

\* A frame as a meter would put it on the wire, checksums correct.
MkFrame(dst, src, ctrl, info) ==
    With(WithCrc(build_header(HDLC_MAX_FRAME_LEN, dst, src, ctrl,
                              Len(info) > 0, Len(info)).buf),
      LAMBDA b1 :
        (IF Len(info) > 0 THEN With(b1 \o info, LAMBDA b : WithCrc(b))
         ELSE b1) \o << HDLC_FLAG >>)

\* b with bit 0 of its byte at TLA+ index i flipped
FlipBit(b, i) == [b EXCEPT ![i] = Xor8Tab[b[i]][1]]

llc_recv_hdr == << \hE6, \hE7, \h00 >>
AareBody(result) ==
    << \hA1, \h09, \h06, \h07 >> \o app_context_ln
      \o << \hA2, \h03, \h02, \h01, result >>
RX_UA == MkFrame(3, 3, HDLC_CTRL_UA, << >>)
RX_DM == MkFrame(3, 3, HDLC_CTRL_DM, << >>)
RX_AARE_OK ==
    MkFrame(3, 3, \h30,
            llc_recv_hdr \o << COSEM_TAG_AARE, Len(AareBody(0)) >>
              \o AareBody(0))
RX_AARE_REJ ==
    MkFrame(3, 3, \h30,
            llc_recv_hdr \o << COSEM_TAG_AARE, Len(AareBody(1)) >>
              \o AareBody(1))
\* an AARE of 3 bytes: too short for an association-result element
RX_AARE_SHORT ==
    MkFrame(3, 3, \h30, llc_recv_hdr \o << COSEM_TAG_AARE, \h01, \h00 >>)
RX_GET_VAL ==
    MkFrame(3, 3, \h52,
            llc_recv_hdr \o << COSEM_TAG_GET_RESPONSE, GET_RESPONSE_NORMAL,
                               \hC1, \h00, COSEM_TYPE_UINT16, \h09, \h29 >>)
RX_GET_DENIED ==
    MkFrame(3, 3, \h52,
            llc_recv_hdr \o << COSEM_TAG_GET_RESPONSE, GET_RESPONSE_NORMAL,
                               \hC1, \h01, \h04 >>)
RX_GET_SCALER ==
    MkFrame(3, 3, \h74,
            llc_recv_hdr \o << COSEM_TAG_GET_RESPONSE, GET_RESPONSE_NORMAL,
                               \hC1, \h00, COSEM_TYPE_STRUCTURE, \h02,
                               COSEM_TYPE_INT8, \hFF,
                               COSEM_TYPE_ENUM, \h23 >>)
RX_GET_BADTYPE ==
    MkFrame(3, 3, \h52,
            llc_recv_hdr \o << COSEM_TAG_GET_RESPONSE, GET_RESPONSE_NORMAL,
                               \hC1, \h00, \hFF, \h00 >>)
\* the answer to an RLRQ: an I-frame with N(S) = 2 that holds an RLRE
RX_RLRE ==
    MkFrame(3, 3, \h54, llc_recv_hdr \o << \h63, \h03, \h80, \h01, \h00 >>)
RX_BADFCS == FlipBit(RX_GET_VAL, Len(RX_GET_VAL) - 1)
RX_SHORT == << HDLC_FLAG, \hA0, \h07 >>
RX_NOCLOSE == SubSeq(RX_GET_VAL, 1, Len(RX_GET_VAL) - 1)

RxBuffers ==
    { RX_UA, RX_DM, RX_AARE_OK, RX_AARE_REJ, RX_AARE_SHORT, RX_GET_VAL,
      RX_GET_DENIED, RX_GET_SCALER, RX_GET_BADTYPE, RX_RLRE, RX_BADFCS,
      RX_SHORT, RX_NOCLOSE }
\* what one rs485_recv call gives: -EAGAIN (timeout), 0 bytes, or a buffer
RxEagain == [k |-> "eagain", raw |-> << >>]
RxZero == [k |-> "zero", raw |-> << >>]
RxBytes(b) == [k |-> "bytes", raw |-> b]
RxAll == {RxEagain, RxZero} \cup {RxBytes(b) : b \in RxBuffers}
\* what may lie in memory behind a struct hdlc_frame on the stack
StackBeyond ==
    { << >>, << \hA2, \h03, \h02, \h01, \h00 >>,
      << \hA2, \h03, \h02, \h01, \h01 >> }

\* An environment: the deliveries tried in the SNRM exchange, the AARQ
\* exchange, the RLRQ and DISC exchanges and the GET exchanges, and the stack
\* contents tried.
\* Every delivery in connection set-up and release, no reads.
EnvLink ==
    [snrm |-> RxAll, aarq |-> RxAll,
     rel |-> {RxEagain, RxZero, RxBytes(RX_UA), RxBytes(RX_BADFCS)},
     get |-> {RxEagain}, stack |-> StackBeyond]
\* A meter that answers set-up and release or stays silent, and answers a
\* GET with a value or an access error, or stays silent.
EnvRead ==
    [snrm |-> {RxEagain, RxBytes(RX_UA)},
     aarq |-> {RxEagain, RxBytes(RX_AARE_OK)},
     rel |-> {RxEagain, RxBytes(RX_UA)},
     get |-> {RxEagain, RxBytes(RX_GET_VAL), RxBytes(RX_GET_DENIED)},
     stack |-> {<< >>}]
\* The same meter when it answers every GET.
EnvPoll ==
    [EnvRead EXCEPT !.get = {RxBytes(RX_GET_VAL), RxBytes(RX_GET_DENIED)}]

\* The meter of EnvRead when it also answers with a scaler-unit structure,
\* on a line that also corrupts an answer or carries one of a type the
\* decoder does not know.
EnvGet ==
    [EnvRead EXCEPT
       !.get = {RxEagain, RxBytes(RX_GET_VAL), RxBytes(RX_GET_DENIED),
                RxBytes(RX_GET_SCALER), RxBytes(RX_BADFCS),
                RxBytes(RX_GET_BADTYPE)}]

(* ---------------- dlms_meter.c: the session ---------------------------- *)
\* One entry of the record of what a call did.  e is "enter" or "ret" (a
\* public function was entered or returned: fn, the state st at that point,
\* the value ret returned), "state" (state was assigned st; aux is the old
\* value), "tx" (transact was given frame: aux is what rs485_send returned,
\* ret what transact returned and rx what rs485_recv delivered where the
\* caller looks at the result, st the state then and send_seq, recv_seq the
\* HDLC counters then) or "get" (a request for attribute aux of table entry
\* idx returned ret).
Ev(e, fn, st, ret, frame, idx, aux, rx) ==
    [e |-> e, fn |-> fn, st |-> st, ret |-> ret, frame |-> frame,
     idx |-> idx, aux |-> aux, rx |-> rx]
EvEnter(fn, s) == Ev("enter", fn, s.state, 0, << >>, 0, 0, RxEagain)
EvRet(fn, s, ret) == Ev("ret", fn, s.state, ret, << >>, 0, 0, RxEagain)
EvState(old, new) == Ev("state", "", new, 0, << >>, 0, old, RxEagain)
EvTx(s, frame, sent, ret, o) ==
    Ev("tx", "", s.state, ret, frame, 0, sent, o)
      @@ [send_seq |-> s.hdlc_send_seq, recv_seq |-> s.hdlc_recv_seq]
EvGet(s, idx, attr, ret) ==
    Ev("get", "", s.state, ret, << >>, idx, attr, RxEagain)

Bind(set, F(_)) == UNION {F(elem) : elem \in set}
SetState(s, new) == [s EXCEPT !.state = new]

\* transact, from the length test on the received bytes to its end
recv_path(raw) ==
    IF Len(raw) < 9 THEN [ret |-> 0 - EPROTO, resp |-> ZeroFrame]
    ELSE With(hdlc_find_frame(raw),
           LAMBDA f :
             IF f.ret < 0 THEN [ret |-> f.ret, resp |-> ZeroFrame]
             ELSE With(hdlc_parse_frame(
                         SubSeq(raw, f.frame_start + 1,
                                f.frame_start + f.frame_len)),
                    LAMBDA q : [ret |-> q.ret, resp |-> q.frame]))
\* recv_path of each buffer the transport may deliver, computed once
RxMemo == Stored([b \in RxBuffers |-> recv_path(b)])

\* transact(tx, tx_len, &resp) when rs485_recv delivers o: [ret, resp, sent],
\* sent what rs485_send returned.  resp is meaningful only when ret is 0.
transact(s, tx, o) ==
    With(rs485_send(s, tx),
         LAMBDA sent :
           IF sent < 0 THEN [ret |-> sent, resp |-> ZeroFrame, sent |-> sent]
           ELSE IF o.k = "eagain"
           THEN [ret |-> 0 - EAGAIN, resp |-> ZeroFrame, sent |-> sent]
           ELSE IF o.k = "zero"
           THEN [ret |-> 0 - ENODATA, resp |-> ZeroFrame, sent |-> sent]
           ELSE With(IF o.raw \in DOMAIN RxMemo THEN RxMemo[o.raw]
                     ELSE recv_path(o.raw),
                  LAMBDA r : [ret |-> r.ret, resp |-> r.resp, sent |-> sent]))

\* a builder that advances the send sequence as a plain byte
build_cosem_iframe_no_mask(s, pdu) ==
    IF LLC_HDR_LEN + Len(pdu) > HDLC_MAX_INFO_LEN
    THEN [ret |-> 0 - ENOMEM, buf |-> << >>, s |-> s]
    ELSE With(hdlc_build_iframe(HDLC_MAX_FRAME_LEN, s.hdlc_client_addr,
                                s.hdlc_server_addr, s.hdlc_send_seq,
                                s.hdlc_recv_seq, Ptr(llc_send_hdr \o pdu),
                                LLC_HDR_LEN + Len(pdu)),
              LAMBDA r :
                [ret |-> r.ret, buf |-> r.buf,
                 s |-> IF r.ret > 0
                       THEN [s EXCEPT !.hdlc_send_seq =
                                        (s.hdlc_send_seq + 1) % 256]
                       ELSE s])
\* build_cosem_iframe(pdu, pdu_len): buf is tx_buf
build_cosem_iframe(s, pdu) ==
    IF LLC_HDR_LEN + Len(pdu) > HDLC_MAX_INFO_LEN
    THEN [ret |-> 0 - ENOMEM, buf |-> << >>, s |-> s]
    ELSE With(hdlc_build_iframe(HDLC_MAX_FRAME_LEN, s.hdlc_client_addr,
                                s.hdlc_server_addr, s.hdlc_send_seq,
                                s.hdlc_recv_seq, Ptr(llc_send_hdr \o pdu),
                                LLC_HDR_LEN + Len(pdu)),
              LAMBDA r :
                [ret |-> r.ret, buf |-> r.buf,
                 s |-> IF r.ret > 0
                       THEN [s EXCEPT !.hdlc_send_seq =
                                        And8((s.hdlc_send_seq + 1) % 256, 7)]
                       ELSE s])

\* a strip that takes the peer's send sequence as it is
strip_iframe_llc_copies_seq(s, resp) ==
    [s |-> IF And8(resp.control, 1) = 0
           THEN [s EXCEPT !.hdlc_recv_seq = And8(resp.control \div 2, 7)]
           ELSE s,
     resp |-> IF resp.info_len >= LLC_HDR_LEN /\ resp.info[1] = \hE6
                 /\ (resp.info[2] = \hE6 \/ resp.info[2] = \hE7)
              THEN [resp EXCEPT
                      !.info_len = resp.info_len - LLC_HDR_LEN,
                      !.info = SubSeq(resp.info, LLC_HDR_LEN + 1,
                                      resp.info_len)
                                 \o SubSeq(resp.info,
                                           resp.info_len - LLC_HDR_LEN + 1,
                                           resp.info_len)]
              ELSE resp]
\* a strip that takes off the header of the server only (E6 E7)
strip_iframe_llc_server_only(s, resp) ==
    [s |-> IF And8(resp.control, 1) = 0
           THEN [s EXCEPT !.hdlc_recv_seq =
                    And8((And8(resp.control \div 2, 7) + 1) % 256, 7)]
           ELSE s,
     resp |-> IF resp.info_len >= LLC_HDR_LEN /\ resp.info[1] = \hE6
                 /\ resp.info[2] = \hE7
              THEN [resp EXCEPT
                      !.info_len = resp.info_len - LLC_HDR_LEN,
                      !.info = SubSeq(resp.info, LLC_HDR_LEN + 1,
                                      resp.info_len)
                                 \o SubSeq(resp.info,
                                           resp.info_len - LLC_HDR_LEN + 1,
                                           resp.info_len)]
              ELSE resp]
\* strip_iframe_llc(resp).  resp.info holds the bytes of the info buffer that
\* were written; after the memmove the 3 bytes behind the new info_len are
\* the old last 3.
strip_iframe_llc(s, resp) ==
    [s |-> IF And8(resp.control, 1) = 0
           THEN [s EXCEPT !.hdlc_recv_seq =
                    And8((And8(resp.control \div 2, 7) + 1) % 256, 7)]
           ELSE s,
     resp |-> IF resp.info_len >= LLC_HDR_LEN /\ resp.info[1] = \hE6
                 /\ (resp.info[2] = \hE6 \/ resp.info[2] = \hE7)
              THEN [resp EXCEPT
                      !.info_len = resp.info_len - LLC_HDR_LEN,
                      !.info = SubSeq(resp.info, LLC_HDR_LEN + 1,
                                      resp.info_len)
                                 \o SubSeq(resp.info,
                                           resp.info_len - LLC_HDR_LEN + 1,
                                           resp.info_len)]
              ELSE resp]

\* The memory from resp.info[0] on: the 256 bytes of info (zero where never
\* written), the padding byte, info_len, segmented, valid, then the stack.
InfoMemory(resp, stack) ==
    resp.info
      \o [k \in 1..(HDLC_MAX_INFO_LEN - Len(resp.info)) |-> 0]
      \o << 0, resp.info_len % 256, resp.info_len \div 256,
            IF resp.segmented THEN 1 ELSE 0, IF resp.valid THEN 1 ELSE 0 >>
      \o stack

\* a reset that also forgets which scalers were read and which entries the
\* meter refused
disconnect_reset_clears_cache(s) ==
    [s EXCEPT !.state = METER_DISCONNECTED, !.hdlc_send_seq = 0,
              !.hdlc_recv_seq = 0,
              !.scaler_cached = [i \in DOMAIN s.scaler_cached |-> FALSE],
              !.obis_skip = [i \in DOMAIN s.obis_skip |-> FALSE]]
\* a reset that forgets the receive sequence
disconnect_reset_send_only(s) ==
    [s EXCEPT !.state = METER_DISCONNECTED, !.hdlc_send_seq = 0]
\* the statics after the three assignments that end meter_disconnect
disconnect_reset(s) ==
    [s EXCEPT !.state = METER_DISCONNECTED, !.hdlc_send_seq = 0,
              !.hdlc_recv_seq = 0]

\* meter_disconnect, the RLRQ part, when rs485_recv delivers o1: [s, lg]
disconnect_release(s, lg, o1) ==
    IF s.state >= METER_ASSOCIATED
    THEN With(cosem_build_rlrq(RLRQ_PDU_SIZE),
              LAMBDA q :
                IF q.ret > 0
                THEN With(build_cosem_iframe(s, q.buf),
                          LAMBDA b :
                            IF b.ret > 0
                            THEN [s |-> b.s,
                                  lg |-> Append(lg,
                                           EvTx(b.s, b.buf,
                                                transact(b.s, b.buf, o1).sent,
                                                0, RxEagain))]
                            ELSE [s |-> b.s, lg |-> lg])
                ELSE [s |-> s, lg |-> lg])
    ELSE [s |-> s, lg |-> lg]

\* a disconnect that gives up when the DISC exchange fails
meter_disconnect_propagates(s, lg, o1, o2) ==
    IF s.state = METER_DISCONNECTED
    THEN [s |-> s,
          lg |-> lg \o << EvEnter("meter_disconnect", s),
                          EvRet("meter_disconnect", s, 0) >>,
          ret |-> 0, fault |-> FALSE]
    ELSE With(disconnect_release(
                s, Append(lg, EvEnter("meter_disconnect", s)), o1),
           LAMBDA rel :
             With(hdlc_build_disc(HDLC_MAX_FRAME_LEN, rel.s.hdlc_client_addr,
                                  rel.s.hdlc_server_addr),
               LAMBDA d :
                 With(transact(rel.s, d.buf, o2),
                   LAMBDA x :
                     IF x.ret < 0
                     THEN [s |-> rel.s,
                           lg |-> rel.lg
                                  \o << EvTx(rel.s, d.buf, x.sent, x.ret, o2),
                                        EvRet("meter_disconnect", rel.s,
                                              x.ret) >>,
                           ret |-> x.ret, fault |-> FALSE]
                     ELSE With(disconnect_reset(rel.s),
                            LAMBDA s3 :
                              [s |-> s3,
                               lg |-> rel.lg
                                      \o << EvTx(rel.s, d.buf, x.sent, 0,
                                                 RxEagain),
                                            EvState(rel.s.state,
                                                    METER_DISCONNECTED),
                                            EvRet("meter_disconnect", s3,
                                                  0) >>,
                               ret |-> 0, fault |-> FALSE]))))

\* meter_disconnect() when rs485_recv delivers o1 in the RLRQ exchange and o2
\* in the DISC exchange: [s, lg, ret, fault].  The results of both transact
\* calls are discarded, so the record of the call does not hold them.
meter_disconnect(s, lg, o1, o2) ==
    IF s.state = METER_DISCONNECTED
    THEN [s |-> s,
          lg |-> lg \o << EvEnter("meter_disconnect", s),
                          EvRet("meter_disconnect", s, 0) >>,
          ret |-> 0, fault |-> FALSE]
    ELSE With(disconnect_release(
                s, Append(lg, EvEnter("meter_disconnect", s)), o1),
           LAMBDA rel :
             With(hdlc_build_disc(HDLC_MAX_FRAME_LEN, rel.s.hdlc_client_addr,
                                  rel.s.hdlc_server_addr),
               LAMBDA d :
                 With(disconnect_reset(rel.s),
                   LAMBDA s3 :
                     [s |-> s3,
                      lg |-> (IF d.ret > 0
                              THEN Append(rel.lg,
                                     EvTx(rel.s, d.buf,
                                          transact(rel.s, d.buf, o2).sent, 0,
                                          RxEagain))
                              ELSE rel.lg)
                             \o << EvState(rel.s.state, METER_DISCONNECTED),
                                   EvRet("meter_disconnect", s3, 0) >>,
                      ret |-> 0, fault |-> FALSE])))

\* meter_disconnect() under every delivery of env
meter_disconnect_any(env, s, lg) ==
    {meter_disconnect(s, lg, o1, o2) : o1 \in env.rel, o2 \in env.rel}

\* meter_connect returns ret
connect_out(s, lg, ret) ==
    [s |-> s, lg |-> Append(lg, EvRet("meter_connect", s, ret)),
     ret |-> ret, fault |-> FALSE]
\* a failure path that returns without touching the state
connect_fail_keeps_state(s, lg, ret) ==
    [s |-> s, lg |-> Append(lg, EvRet("meter_connect", s, ret)),
     ret |-> ret, fault |-> FALSE]
\* state = METER_ERROR; return ret;
connect_fail(s, lg, ret) ==
    [s |-> SetState(s, METER_ERROR),
     lg |-> lg \o << EvState(s.state, METER_ERROR),
                     EvRet("meter_connect", SetState(s, METER_ERROR), ret) >>,
     ret |-> ret, fault |-> FALSE]

\* meter_connect from strip_iframe_llc(&resp) of the AARQ response on
connect_associate(env, s, lg, resp) ==
    With(strip_iframe_llc(s, resp),
      LAMBDA st :
        { IF a.fault
          THEN [s |-> st.s, lg |-> lg, ret |-> 0, fault |-> TRUE]
          ELSE IF a.ret < 0 THEN connect_fail(st.s, lg, a.ret)
          ELSE [s |-> SetState(st.s, METER_ASSOCIATED),
                lg |-> lg \o << EvState(st.s.state, METER_ASSOCIATED),
                                EvRet("meter_connect",
                                      SetState(st.s, METER_ASSOCIATED), 0) >>,
                ret |-> 0, fault |-> FALSE]
          : a \in { cosem_parse_aare(InfoMemory(st.resp, stack),
                                     st.resp.info_len)
                    : stack \in env.stack } })

\* meter_connect from "Step 2: COSEM AARQ" on
connect_aarq(env, s, lg) ==
    With(cosem_build_aarq(AARQ_PDU_SIZE, s.cfg.password),
      LAMBDA q :
        IF q.ret < 0 THEN {connect_out(s, lg, q.ret)}
        ELSE With(build_cosem_iframe(s, q.buf),
               LAMBDA b :
                 IF b.ret < 0 THEN {connect_out(b.s, lg, b.ret)}
                 ELSE UNION {
                        With(transact(b.s, b.buf, o),
                          LAMBDA x :
                            With(Append(lg, EvTx(b.s, b.buf, x.sent, x.ret,
                                                 o)),
                              LAMBDA lg2 :
                                IF x.ret < 0
                                THEN {connect_fail(b.s, lg2, x.ret)}
                                ELSE connect_associate(env, b.s, lg2,
                                                       x.resp)))
                        : o \in env.aarq }))

\* a connect that computes the addresses and zeroes the HDLC counters only
connect_reset_keeps_invoke_id(s) ==
    With(Or16((s.cfg.server_logical * 128) % 65536, s.cfg.server_physical),
      LAMBDA combined_server :
        [s EXCEPT
           !.hdlc_client_addr = HDLC_CLIENT_ADDR(s.cfg.client_sap),
           !.hdlc_server_addr =
               IF combined_server < 128
               THEN Or16(combined_server * 2, 1) % 256
               ELSE HDLC_SERVER_ADDR_1B(s.cfg.server_logical),
           !.hdlc_send_seq = 0, !.hdlc_recv_seq = 0])
\* the statics after the address computation and the counter reset of
\* meter_connect
connect_reset(s) ==
    With(Or16((s.cfg.server_logical * 128) % 65536, s.cfg.server_physical),
      LAMBDA combined_server :
        [s EXCEPT
           !.hdlc_client_addr = HDLC_CLIENT_ADDR(s.cfg.client_sap),
           !.hdlc_server_addr =
               IF combined_server < 128
               THEN Or16(combined_server * 2, 1) % 256
               ELSE HDLC_SERVER_ADDR_1B(s.cfg.server_logical),
           !.hdlc_send_seq = 0, !.hdlc_recv_seq = 0,
           !.cosem_invoke_id = 0])

\* a connect that takes every accepted answer to the SNRM as the UA
connect_snrm_any_answer(env, s, lg) ==
    With(connect_reset(s),
      LAMBDA s1 :
        With(hdlc_build_snrm(HDLC_MAX_FRAME_LEN, s1.hdlc_client_addr,
                             s1.hdlc_server_addr, HdlcNoParams),
          LAMBDA f :
            IF f.ret < 0 THEN {connect_out(s1, lg, f.ret)}
            ELSE UNION {
                   With(transact(s1, f.buf, o),
                     LAMBDA x :
                       With(Append(lg, EvTx(s1, f.buf, x.sent, x.ret, o)),
                         LAMBDA lg2 :
                           IF x.ret < 0 THEN {connect_fail(s1, lg2, x.ret)}
                           ELSE With(
                                  [s |-> SetState(s1, METER_HDLC_CONNECTED),
                                   lg |-> Append(lg2,
                                            EvState(s1.state,
                                                    METER_HDLC_CONNECTED))],
                                  LAMBDA c : connect_aarq(env, c.s, c.lg))))
                   : o \in env.snrm }))
\* meter_connect from the address computation on ("Step 1: HDLC SNRM")
connect_snrm(env, s, lg) ==
    With(connect_reset(s),
      LAMBDA s1 :
        With(hdlc_build_snrm(HDLC_MAX_FRAME_LEN, s1.hdlc_client_addr,
                             s1.hdlc_server_addr, HdlcNoParams),
          LAMBDA f :
            IF f.ret < 0 THEN {connect_out(s1, lg, f.ret)}
            ELSE UNION {
                   With(transact(s1, f.buf, o),
                     LAMBDA x :
                       With(Append(lg, EvTx(s1, f.buf, x.sent, x.ret, o)),
                         LAMBDA lg2 :
                           IF x.ret < 0 THEN {connect_fail(s1, lg2, x.ret)}
                           ELSE IF x.resp.control # HDLC_CTRL_UA
                           THEN {connect_fail(s1, lg2, 0 - EPROTO)}
                           ELSE With(
                                  [s |-> SetState(s1, METER_HDLC_CONNECTED),
                                   lg |-> Append(lg2,
                                            EvState(s1.state,
                                                    METER_HDLC_CONNECTED))],
                                  LAMBDA c : connect_aarq(env, c.s, c.lg))))
                   : o \in env.snrm }))

\* a connect that releases an association but goes on from Error as it is
meter_connect_keeps_error(env, s, lg) ==
    UNION { connect_snrm(env, a.s, a.lg)
            : a \in IF s.state >= METER_HDLC_CONNECTED
                       /\ s.state # METER_ERROR
                    THEN meter_disconnect_any(
                           env, s, Append(lg, EvEnter("meter_connect", s)))
                    ELSE {[s |-> s,
                           lg |-> Append(lg, EvEnter("meter_connect", s))]} }
\* meter_connect(): the set of its possible results [s, lg, ret, fault]
meter_connect(env, s, lg) ==
    UNION { connect_snrm(env, a.s, a.lg)
            : a \in IF s.state >= METER_HDLC_CONNECTED
                    THEN meter_disconnect_any(
                           env, s, Append(lg, EvEnter("meter_connect", s)))
                    ELSE {[s |-> s,
                           lg |-> Append(lg, EvEnter("meter_connect", s))]} }

(* ---------------- dlms_meter.c: reading -------------------------------- *)
\* A double.  k says how the 8 (for "f32": 4) bytes in bits are read: as
\* uint64_t, int64_t, double or float converted to double; the value is that
\* number times 10^e.
DblZero == [k |-> "f64", bits |-> Zero8, e |-> 0]
MkDbl(k, bits, e) ==
    IF k \in {"u64", "i64"} /\ bits = Zero8 THEN DblZero
    ELSE [k |-> k, bits |-> bits, e |-> e]
\* a slot of scaler_cache: 0.0 (never written) or 10^exp
CacheZero == [pow10 |-> FALSE, exp |-> 0]
Pow10(x) == [pow10 |-> TRUE, exp |-> x]

\* struct meter_readings: vals maps the field of each table entry to its
\* double
Fields == {obis_table[i].offset : i \in Entries}
ZeroReadings ==
    [vals |-> [f \in Fields |-> DblZero], valid |-> FALSE, read_count |-> 0,
     error_count |-> 0, timestamp_ms |-> 0]
\* a record the caller has used before
UsedReadings ==
    [vals |-> [f \in Fields |-> [k |-> "u64", bits |-> Widen(<< 7 >>, FALSE),
                                 e |-> 0]],
     valid |-> TRUE, read_count |-> 5, error_count |-> 4,
     timestamp_ms |-> 0]

\* an exchange that advances the invoke id only when transact succeeds
get_exchange_counts_successes(env, s, lg, idx, attribute_id) ==
    With(cosem_build_get_request(
           GET_PDU_SIZE, s.cosem_invoke_id,
           [class_id |-> obis_table[idx].class_id,
            obis |-> obis_table[idx].obis, attribute_id |-> attribute_id]),
      LAMBDA q :
        IF q.ret < 0
        THEN {[s |-> s, lg |-> lg, ret |-> q.ret, resp |-> ZeroFrame]}
        ELSE With(build_cosem_iframe(s, q.buf),
               LAMBDA b :
                 IF b.ret < 0
                 THEN {[s |-> b.s, lg |-> lg, ret |-> b.ret,
                        resp |-> ZeroFrame]}
                 ELSE { With(transact(b.s, b.buf, o),
                          LAMBDA x :
                            IF x.ret < 0
                            THEN [s |-> b.s,
                                  lg |-> Append(lg, EvTx(b.s, b.buf,
                                                         x.sent, x.ret, o)),
                                  ret |-> x.ret, resp |-> ZeroFrame]
                            ELSE With(strip_iframe_llc(
                                        [b.s EXCEPT !.cosem_invoke_id =
                                           (b.s.cosem_invoke_id + 1) % 256],
                                        x.resp),
                                   LAMBDA st :
                                     [s |-> st.s,
                                      lg |-> Append(lg,
                                               EvTx(b.s, b.buf, x.sent,
                                                    x.ret, o)),
                                      ret |-> 0, resp |-> st.resp]))
                        : o \in env.get }))
\* the request and exchange common to read_obis_value and read_scaler_unit:
\* results [s, lg, ret, resp], resp stripped of its LLC header when ret is 0
get_exchange(env, s, lg, idx, attribute_id) ==
    With(cosem_build_get_request(
           GET_PDU_SIZE, s.cosem_invoke_id,
           [class_id |-> obis_table[idx].class_id,
            obis |-> obis_table[idx].obis, attribute_id |-> attribute_id]),
      LAMBDA q :
        With([s EXCEPT !.cosem_invoke_id = (s.cosem_invoke_id + 1) % 256],
          LAMBDA s1 :
            IF q.ret < 0
            THEN {[s |-> s1, lg |-> lg, ret |-> q.ret, resp |-> ZeroFrame]}
            ELSE With(build_cosem_iframe(s1, q.buf),
                   LAMBDA b :
                     IF b.ret < 0
                     THEN {[s |-> b.s, lg |-> lg, ret |-> b.ret,
                            resp |-> ZeroFrame]}
                     ELSE { With(transact(b.s, b.buf, o),
                              LAMBDA x :
                                IF x.ret < 0
                                THEN [s |-> b.s,
                                      lg |-> Append(lg, EvTx(b.s, b.buf,
                                                             x.sent, x.ret,
                                                             o)),
                                      ret |-> x.ret, resp |-> ZeroFrame]
                                ELSE With(strip_iframe_llc(b.s, x.resp),
                                       LAMBDA st :
                                         [s |-> st.s,
                                          lg |-> Append(lg,
                                                   EvTx(b.s, b.buf, x.sent,
                                                        x.ret, o)),
                                          ret |-> 0, resp |-> st.resp]))
                            : o \in env.get })))

\* read_obis_value(entry, &result): results [s, lg, ret, result]
read_obis_value(env, s, lg, idx) ==
    { IF x.ret < 0
      THEN [s |-> x.s, lg |-> x.lg, ret |-> x.ret, result |-> ZeroResult]
      ELSE With(SubSeq(x.resp.info, 1, x.resp.info_len),
             LAMBDA pdu :
               With(cosem_parse_get_response(pdu, ZeroResult),
                 LAMBDA g :
                   [s |-> x.s, lg |-> x.lg, ret |-> g.ret,
                    result |-> g.result]))
      : x \in get_exchange(env, s, lg, idx, 2) }

\* value_to_double(result, table_idx)
value_to_double(s, result, idx) ==
    LET scale == IF idx >= 1 /\ idx <= OBIS_TABLE_SIZE /\ s.scaler_cached[idx]
                 THEN s.scaler_cache[idx].exp ELSE 0
    IN  IF result.data_type \in {COSEM_TYPE_UINT8, COSEM_TYPE_UINT16,
                                 COSEM_TYPE_UINT32, COSEM_TYPE_UINT64,
                                 COSEM_TYPE_ENUM}
        THEN MkDbl("u64", result.bits, scale)
        ELSE IF result.data_type \in {COSEM_TYPE_INT8, COSEM_TYPE_INT16,
                                      COSEM_TYPE_INT32, COSEM_TYPE_INT64}
        THEN MkDbl("i64", result.bits, scale)
        ELSE IF result.data_type = COSEM_TYPE_FLOAT32
        THEN MkDbl("f32", result.bits, scale)
        ELSE IF result.data_type = COSEM_TYPE_FLOAT64
        THEN MkDbl("f64", result.bits, scale)
        ELSE DblZero

SetCache(s, idx, c) ==
    [s EXCEPT !.scaler_cache[idx] = c, !.scaler_cached[idx] = TRUE]

\* read_scaler_unit(table_idx): results [s, lg, ret]
read_scaler_unit(env, s, lg, idx) ==
    { IF x.ret < 0 THEN [s |-> x.s, lg |-> x.lg, ret |-> x.ret]
      ELSE LET info == x.resp.info
               dlen == x.resp.info_len - 4
               \* d[k] is info[4 + k], TLA+ index 5 + k
           IN  IF x.resp.info_len > 6 /\ info[1] = COSEM_TAG_GET_RESPONSE
                  /\ dlen >= 6 /\ info[5] = COSEM_TYPE_STRUCTURE
                  /\ info[6] = \h02 /\ info[7] = COSEM_TYPE_INT8
               THEN LET scaler == IF info[8] >= 128 THEN info[8] - 256
                                  ELSE info[8]
                    IN  [s |-> SetCache(x.s, idx, Pow10(scaler)),
                         lg |-> x.lg, ret |-> 0]
               ELSE [s |-> SetCache(x.s, idx, Pow10(0)), lg |-> x.lg,
                     ret |-> 0]
      : x \in get_exchange(env, s, lg, idx, 3) }

RECURSIVE scaler_phase_rereads(_, _, _)
\* a first phase that asks for the scaler of every entry outside the skip set
scaler_phase_rereads(env, a, i) ==
    IF i > OBIS_TABLE_SIZE THEN {a}
    ELSE IF a.s.obis_skip[i]
    THEN scaler_phase_rereads(env, a, i + 1)
    ELSE UNION {
           scaler_phase_rereads(env, a2, i + 1)
           : a2 \in { [s |-> IF x.ret < 0 THEN SetCache(x.s, i, Pow10(0))
                             ELSE x.s,
                       lg |-> Append(x.lg, EvGet(x.s, i, 3, x.ret))]
                      : x \in read_scaler_unit(env, a.s, a.lg, i) } }
RECURSIVE scaler_phase_no_fallback(_, _, _)
\* a first phase that leaves an entry unmarked when its scaler read fails
scaler_phase_no_fallback(env, a, i) ==
    IF i > OBIS_TABLE_SIZE THEN {a}
    ELSE IF a.s.obis_skip[i] \/ a.s.scaler_cached[i]
    THEN scaler_phase_no_fallback(env, a, i + 1)
    ELSE UNION {
           scaler_phase_no_fallback(env, a2, i + 1)
           : a2 \in { [s |-> x.s,
                       lg |-> Append(x.lg, EvGet(x.s, i, 3, x.ret))]
                      : x \in read_scaler_unit(env, a.s, a.lg, i) } }
RECURSIVE scaler_phase(_, _, _)
\* Phase 1 of meter_read_all from table index i on: results [s, lg]
scaler_phase(env, a, i) ==
    IF i > OBIS_TABLE_SIZE THEN {a}
    ELSE IF a.s.obis_skip[i] \/ a.s.scaler_cached[i]
    THEN scaler_phase(env, a, i + 1)
    ELSE UNION {
           scaler_phase(env, a2, i + 1)
           : a2 \in { [s |-> IF x.ret < 0 THEN SetCache(x.s, i, Pow10(0))
                             ELSE x.s,
                       lg |-> Append(x.lg, EvGet(x.s, i, 3, x.ret))]
                      : x \in read_scaler_unit(env, a.s, a.lg, i) } }

\* a pass that marks an entry after any failed read
value_step_skips_any_failure(env, a, i) ==
    { [s |-> IF ~(x.ret = 0 /\ x.result.success)
             THEN [x.s EXCEPT !.obis_skip[i] = TRUE]
             ELSE x.s,
       lg |-> Append(x.lg, EvGet(x.s, i, 2, x.ret)),
       rd |-> IF x.ret = 0 /\ x.result.success
              THEN [a.rd EXCEPT
                      !.vals[obis_table[i].offset] =
                          value_to_double(x.s, x.result, i),
                      !.read_count = a.rd.read_count + 1]
              ELSE [a.rd EXCEPT !.error_count = a.rd.error_count + 1]]
      : x \in read_obis_value(env, a.s, a.lg, i) }
\* a pass that counts a refused entry but does not mark it
value_step_forgets_denial(env, a, i) ==
    { [s |-> x.s,
       lg |-> Append(x.lg, EvGet(x.s, i, 2, x.ret)),
       rd |-> IF x.ret = 0 /\ x.result.success
              THEN [a.rd EXCEPT
                      !.vals[obis_table[i].offset] =
                          value_to_double(x.s, x.result, i),
                      !.read_count = a.rd.read_count + 1]
              ELSE [a.rd EXCEPT !.error_count = a.rd.error_count + 1]]
      : x \in read_obis_value(env, a.s, a.lg, i) }
\* a pass that marks a refused entry without counting the failed read
value_step_uncounted_denial(env, a, i) ==
    { [s |-> IF ~(x.ret = 0 /\ x.result.success) /\ x.ret = 0 - EACCES
             THEN [x.s EXCEPT !.obis_skip[i] = TRUE]
             ELSE x.s,
       lg |-> Append(x.lg, EvGet(x.s, i, 2, x.ret)),
       rd |-> IF x.ret = 0 /\ x.result.success
              THEN [a.rd EXCEPT
                      !.vals[obis_table[i].offset] =
                          value_to_double(x.s, x.result, i),
                      !.read_count = a.rd.read_count + 1]
              ELSE IF x.ret = 0 - EACCES THEN a.rd
              ELSE [a.rd EXCEPT !.error_count = a.rd.error_count + 1]]
      : x \in read_obis_value(env, a.s, a.lg, i) }
\* One pass of the value loop of meter_read_all for the entry i, not
\* skipped: results [s, lg, rd]
value_step(env, a, i) ==
    { [s |-> IF ~(x.ret = 0 /\ x.result.success) /\ x.ret = 0 - EACCES
             THEN [x.s EXCEPT !.obis_skip[i] = TRUE]
             ELSE x.s,
       lg |-> Append(x.lg, EvGet(x.s, i, 2, x.ret)),
       rd |-> IF x.ret = 0 /\ x.result.success
              THEN [a.rd EXCEPT
                      !.vals[obis_table[i].offset] =
                          value_to_double(x.s, x.result, i),
                      !.read_count = a.rd.read_count + 1]
              ELSE [a.rd EXCEPT !.error_count = a.rd.error_count + 1]]
      : x \in read_obis_value(env, a.s, a.lg, i) }

RECURSIVE value_phase_stops_on_error(_, _, _)
\* a value loop that ends at the first read that fails
value_phase_stops_on_error(env, a, i) ==
    IF i > OBIS_TABLE_SIZE THEN {a}
    ELSE IF a.s.obis_skip[i] THEN value_phase_stops_on_error(env, a, i + 1)
    ELSE UNION { IF a2.rd.error_count > a.rd.error_count THEN {a2}
                 ELSE value_phase_stops_on_error(env, a2, i + 1)
                 : a2 \in value_step(env, a, i) }
RECURSIVE value_phase(_, _, _)
\* Phase 2 of meter_read_all from table index i on: results [s, lg, rd]
value_phase(env, a, i) ==
    IF i > OBIS_TABLE_SIZE THEN {a}
    ELSE IF a.s.obis_skip[i] THEN value_phase(env, a, i + 1)
    ELSE UNION { value_phase(env, a2, i + 1) : a2 \in value_step(env, a, i) }

\* meter_read_all returns ret with the statics s and the caller's record rd
read_all_out(s, lg, rd, ret) ==
    [s |-> s, lg |-> Append(lg, EvRet("meter_read_all", s, ret)),
     ret |-> ret, fault |-> FALSE, rd |-> rd]

\* an end that calls the record valid only when no read failed
read_all_finish_all_or_nothing(a) ==
    read_all_out(a.s, a.lg, [a.rd EXCEPT !.valid = (a.rd.error_count = 0)],
                 IF a.rd.error_count = 0 THEN 0 ELSE 0 - EIO)
\* an end that leaves the session in Error when no read succeeded
read_all_finish_error_state(a) ==
    read_all_out(IF a.rd.read_count > 0 THEN a.s
                 ELSE SetState(a.s, METER_ERROR),
                 a.lg, [a.rd EXCEPT !.valid = (a.rd.read_count > 0)],
                 IF a.rd.read_count > 0 THEN 0 ELSE 0 - EIO)
\* the end of meter_read_all, from the assignment of readings->valid on; a
\* is [s, lg, rd] after the value loop
read_all_finish(a) ==
    read_all_out(a.s, a.lg, [a.rd EXCEPT !.valid = (a.rd.read_count > 0)],
                 IF a.rd.read_count > 0 THEN 0 ELSE 0 - EIO)

\* a meter_read_all that goes on from what the record holds
meter_read_all_merges(env, s, lg, rd, has_rd, now) ==
    IF ~has_rd
    THEN {read_all_out(s, Append(lg, EvEnter("meter_read_all", s)), rd,
                       0 - EINVAL)}
    ELSE IF s.state # METER_ASSOCIATED
    THEN {read_all_out(s, Append(lg, EvEnter("meter_read_all", s)), rd,
                       0 - ENOTCONN)}
    ELSE { read_all_finish(a)
           : a \in UNION {
               value_phase(env,
                 [s |-> p.s, lg |-> p.lg,
                  rd |-> [rd EXCEPT !.timestamp_ms = now]], 1)
               : p \in scaler_phase(
                         env,
                         [s |-> s,
                          lg |-> Append(lg, EvEnter("meter_read_all", s))],
                         1) } }
\* a meter_read_all that clears the record before it looks at the state
meter_read_all_clears_first(env, s, lg, rd, has_rd, now) ==
    IF ~has_rd
    THEN {read_all_out(s, Append(lg, EvEnter("meter_read_all", s)), rd,
                       0 - EINVAL)}
    ELSE IF s.state # METER_ASSOCIATED
    THEN {read_all_out(s, Append(lg, EvEnter("meter_read_all", s)),
                       [ZeroReadings EXCEPT !.timestamp_ms = now],
                       0 - ENOTCONN)}
    ELSE { read_all_finish(a)
           : a \in UNION {
               value_phase(env,
                 [s |-> p.s, lg |-> p.lg,
                  rd |-> [ZeroReadings EXCEPT !.timestamp_ms = now]], 1)
               : p \in scaler_phase(
                         env,
                         [s |-> s,
                          lg |-> Append(lg, EvEnter("meter_read_all", s))],
                         1) } }
\* meter_read_all(readings): results [s, lg, ret, fault, rd]; has_rd is
\* FALSE for a NULL pointer, now is what k_uptime_get() returns
meter_read_all(env, s, lg, rd, has_rd, now) ==
    IF ~has_rd
    THEN {read_all_out(s, Append(lg, EvEnter("meter_read_all", s)), rd,
                       0 - EINVAL)}
    ELSE IF s.state # METER_ASSOCIATED
    THEN {read_all_out(s, Append(lg, EvEnter("meter_read_all", s)), rd,
                       0 - ENOTCONN)}
    ELSE { read_all_finish(a)
           : a \in UNION {
               value_phase(env,
                 [s |-> p.s, lg |-> p.lg,
                  rd |-> [ZeroReadings EXCEPT !.timestamp_ms = now]], 1)
               : p \in scaler_phase(
                         env,
                         [s |-> s,
                          lg |-> Append(lg, EvEnter("meter_read_all", s))],
                         1) } }

\* meter_poll returns ret; d is what its closing meter_disconnect came to
\* and rx the two deliveries of that meter_disconnect
poll_out(d, rd, ret, rx) ==
    [s |-> d.s, lg |-> Append(d.lg, EvRet("meter_poll", d.s, ret)),
     ret |-> ret, fault |-> FALSE, rd |-> rd, rx |-> rx]

\* a poll that returns a connect failure without disconnecting
meter_poll_leaves_error(env, s, lg, rd, has_rd, now) ==
    IF ~has_rd
    THEN {poll_out([s |-> s, lg |-> Append(lg, EvEnter("meter_poll", s))],
                   rd, 0 - EINVAL, << RxEagain, RxEagain >>)}
    ELSE UNION {
           IF c.fault
           THEN {[s |-> c.s, lg |-> c.lg, ret |-> 0, fault |-> TRUE,
                  rd |-> rd, rx |-> << RxEagain, RxEagain >>]}
           ELSE IF c.ret < 0
           THEN {poll_out(c, rd, c.ret, << RxEagain, RxEagain >>)}
           ELSE UNION {
                  { poll_out(meter_disconnect(r.s, r.lg, o1, o2), r.rd,
                             r.ret, << o1, o2 >>)
                    : o1 \in env.rel, o2 \in env.rel }
                  : r \in meter_read_all(env, c.s, c.lg, rd, has_rd, now) }
           : c \in meter_connect(env, s,
                                 Append(lg, EvEnter("meter_poll", s))) }
\* a poll that returns what its closing disconnect returned
meter_poll_returns_disconnect(env, s, lg, rd, has_rd, now) ==
    IF ~has_rd
    THEN {poll_out([s |-> s, lg |-> Append(lg, EvEnter("meter_poll", s))],
                   rd, 0 - EINVAL, << RxEagain, RxEagain >>)}
    ELSE UNION {
           IF c.fault
           THEN {[s |-> c.s, lg |-> c.lg, ret |-> 0, fault |-> TRUE,
                  rd |-> rd, rx |-> << RxEagain, RxEagain >>]}
           ELSE IF c.ret < 0
           THEN { poll_out(meter_disconnect(c.s, c.lg, o1, o2), rd, c.ret,
                           << o1, o2 >>)
                  : o1 \in env.rel, o2 \in env.rel }
           ELSE UNION {
                  { With(meter_disconnect(r.s, r.lg, o1, o2),
                      LAMBDA d : poll_out(d, r.rd, d.ret, << o1, o2 >>))
                    : o1 \in env.rel, o2 \in env.rel }
                  : r \in meter_read_all(env, c.s, c.lg, rd, has_rd, now) }
           : c \in meter_connect(env, s,
                                 Append(lg, EvEnter("meter_poll", s))) }
\* meter_poll(readings): results [s, lg, ret, fault, rd, rx], rx the
\* deliveries of the RLRQ and DISC exchanges of the closing meter_disconnect
meter_poll(env, s, lg, rd, has_rd, now) ==
    IF ~has_rd
    THEN {poll_out([s |-> s, lg |-> Append(lg, EvEnter("meter_poll", s))],
                   rd, 0 - EINVAL, << RxEagain, RxEagain >>)}
    ELSE UNION {
           IF c.fault
           THEN {[s |-> c.s, lg |-> c.lg, ret |-> 0, fault |-> TRUE,
                  rd |-> rd, rx |-> << RxEagain, RxEagain >>]}
           ELSE IF c.ret < 0
           THEN { poll_out(meter_disconnect(c.s, c.lg, o1, o2), rd, c.ret,
                           << o1, o2 >>)
                  : o1 \in env.rel, o2 \in env.rel }
           ELSE UNION {
                  { poll_out(meter_disconnect(r.s, r.lg, o1, o2), r.rd,
                             r.ret, << o1, o2 >>)
                    : o1 \in env.rel, o2 \in env.rel }
                  : r \in meter_read_all(env, c.s, c.lg, rd, has_rd, now) }
           : c \in meter_connect(env, s,
                                 Append(lg, EvEnter("meter_poll", s))) }

\* meter_init(): init_ok says whether rs485_init succeeded; uart_dev is
\* assigned either way
meter_init(s, lg, init_ok) ==
    LET lg1 == Append(lg, EvEnter("meter_init", s))
        s1 == [s EXCEPT !.cfg = set_defaults, !.uart_dev = TRUE]
    IN  IF ~init_ok
        THEN [s |-> s1, lg |-> Append(lg1, EvRet("meter_init", s1, 0 - ENODEV)),
              ret |-> 0 - ENODEV, fault |-> FALSE]
        ELSE LET s2 == [s1 EXCEPT
                          !.scaler_cached = [i \in Entries |-> FALSE],
                          !.obis_skip = [i \in Entries |-> FALSE],
                          !.state = METER_DISCONNECTED]
             IN  [s |-> s2,
                  lg |-> Append(Append(lg1, EvState(s1.state,
                                                    METER_DISCONNECTED)),
                                EvRet("meter_init", s2, 0)),
                  ret |-> 0, fault |-> FALSE]

\* meter_set_config(new_cfg): has_cfg is FALSE for a NULL pointer
meter_set_config(s, new_cfg, has_cfg) ==
    [s EXCEPT !.cfg = IF has_cfg THEN new_cfg ELSE set_defaults]

(* ---------------- the program ------------------------------------------ *)
VARIABLES
    state, cfg, hdlc_send_seq, hdlc_recv_seq, cosem_invoke_id,
    hdlc_client_addr, hdlc_server_addr, scaler_cache, scaler_cached,
    obis_skip,
    uart_dev,   \* rs485_uart.c: uart_dev is not NULL
    call,       \* the call of the public interface that has just returned
    faulted,    \* the program has stopped on a memory fault
    rx_ring_buf, rx_head, rx_tail,  \* rs485_uart.c: the receive ring
    rx_sem,     \* rs485_uart.c: the count of the semaphore rx_sem (0 or 1)
    recv,       \* where the thread is in rs485_recv, with its locals
    wire        \* what has arrived on the line, as an observer counts it

vars ==
    << state, cfg, hdlc_send_seq, hdlc_recv_seq, cosem_invoke_id,
       hdlc_client_addr, hdlc_server_addr, scaler_cache, scaler_cached,
       obis_skip, uart_dev, call, faulted, rx_ring_buf, rx_head, rx_tail,
       rx_sem, recv, wire >>
\* the session of dlms_meter.c and the history of its calls
sess_vars ==
    << state, cfg, hdlc_send_seq, hdlc_recv_seq, cosem_invoke_id,
       hdlc_client_addr, hdlc_server_addr, scaler_cache, scaler_cached,
       obis_skip, uart_dev, call, faulted >>
\* the statics and the thread of rs485_uart.c
uart_vars == << rx_ring_buf, rx_head, rx_tail, rx_sem, recv, wire >>
\* the thread outside rs485_recv
RecvIdle ==
    [pc |-> "idle", buf_size |-> 0, timeout_ms |-> 0, waited |-> 0,
     buf |-> << >>, ret |-> 0]
\* nothing has arrived: n bytes arrived since start, unread are the bytes
\* that arrived since the latest flush, were not dropped and were not
\* returned, taken the bytes the latest rs485_recv took out of them, dropped
\* the count of the bytes that were dropped
Wire0 == [n |-> 0, dropped |-> 0, unread |-> << >>, taken |-> << >>]

\* the module's statics as one record
Sess ==
    [state |-> state, cfg |-> cfg, hdlc_send_seq |-> hdlc_send_seq,
     hdlc_recv_seq |-> hdlc_recv_seq, cosem_invoke_id |-> cosem_invoke_id,
     hdlc_client_addr |-> hdlc_client_addr,
     hdlc_server_addr |-> hdlc_server_addr, scaler_cache |-> scaler_cache,
     scaler_cached |-> scaler_cached, obis_skip |-> obis_skip,
     uart_dev |-> uart_dev]

NoDelivery == << RxEagain, RxEagain >>
\* What an observer of the line has counted: the I-frames and, among them,
\* the GET requests handed to transact since the latest SNRM (iframes,
\* gets); the N(R) that the latest accepted response with an I-frame control
\* byte asks for, that is its N(S) plus one modulo 8, or 0 when there was
\* none since the latest SNRM: nr_any over all responses, nr over the
\* responses to an AARQ or a GET request.
Line0 == [iframes |-> 0, gets |-> 0, nr_any |-> 0, nr |-> 0]
\* the control byte of the response of the exchange ev, or 1 (no I-frame)
\* when transact took no frame
ResponseCtrl(ev) ==
    IF ev.ret = 0 /\ ev.rx.k = "bytes" THEN RxMemo[ev.rx.raw].resp.control
    ELSE 1
\* the observer's count after the record entry ev
LineStep(t, ev) ==
    IF ev.e # "tx" THEN t
    ELSE LET f == ev.frame
             iframe == And8(f[6], 1) = 0
             tag == IF iframe /\ Len(f) >= 12 THEN f[12] ELSE 0
             c == ResponseCtrl(ev)
             asked == (And8(c \div 2, 7) + 1) % 8
             t1 == IF f[6] = HDLC_CTRL_SNRM THEN Line0
                   ELSE IF iframe
                   THEN [t EXCEPT !.iframes = @ + 1,
                                  !.gets = IF tag = COSEM_TAG_GET_REQUEST
                                           THEN @ + 1 ELSE @]
                   ELSE t
         IN  IF And8(c, 1) # 0 THEN t1
             ELSE [t1 EXCEPT
                     !.nr_any = asked,
                     !.nr = IF tag \in {COSEM_TAG_AARQ,
                                        COSEM_TAG_GET_REQUEST}
                            THEN asked ELSE @]
\* the observer's count after the first k entries of the record lg
RECURSIVE LineAt(_, _, _)
LineAt(t, lg, k) ==
    IF k = 0 THEN t ELSE LineStep(LineAt(t, lg, k - 1), lg[k])

\* no call has returned since the caller last resumed
NoCall ==
    [op |-> "none", pre |-> Sess, rd_pre |-> ZeroReadings,
     rd |-> ZeroReadings, has_rd |-> FALSE, rx |-> NoDelivery, ret |-> 0,
     lg |-> << >>, fault |-> FALSE, before |-> Line0, since |-> Line0]

\* The call op returns r: the statics take the values of r.s and call holds
\* the statics before it (pre), the caller's record before and after it
\* (rd_pre, rd; has_rd is FALSE when the caller passed NULL or the function
\* takes no record), the deliveries of a meter_disconnect called by the
\* caller or of the meter_disconnect that closes a meter_poll (rx),
\* the returned value and the record of what the call did; before and since
\* are the observer's counts when the call was entered and when it returned.
Install(op, r, rd_pre, rd, has_rd, rx) ==
    /\ state' = r.s.state
    /\ cfg' = r.s.cfg
    /\ hdlc_send_seq' = r.s.hdlc_send_seq
    /\ hdlc_recv_seq' = r.s.hdlc_recv_seq
    /\ cosem_invoke_id' = r.s.cosem_invoke_id
    /\ hdlc_client_addr' = r.s.hdlc_client_addr
    /\ hdlc_server_addr' = r.s.hdlc_server_addr
    /\ scaler_cache' = r.s.scaler_cache
    /\ scaler_cached' = r.s.scaler_cached
    /\ obis_skip' = r.s.obis_skip
    /\ uart_dev' = r.s.uart_dev
    /\ faulted' = r.fault
    /\ UNCHANGED uart_vars
    /\ call' = [op |-> op, pre |-> Sess, rd_pre |-> rd_pre, rd |-> rd,
                has_rd |-> has_rd, rx |-> rx, ret |-> r.ret, lg |-> r.lg,
                fault |-> r.fault, before |-> call.since,
                since |-> LineAt(call.since, r.lg, Len(r.lg))]

\* The statics as the C runtime zero-initialises them, before meter_init.
Init ==
    /\ state = METER_DISCONNECTED
    /\ cfg = ZeroCfg
    /\ hdlc_send_seq = 0
    /\ hdlc_recv_seq = 0
    /\ cosem_invoke_id = 0
    /\ hdlc_client_addr = 0
    /\ hdlc_server_addr = 0
    /\ scaler_cache = [i \in Entries |-> CacheZero]
    /\ scaler_cached = [i \in Entries |-> FALSE]
    /\ obis_skip = [i \in Entries |-> FALSE]
    /\ uart_dev = FALSE
    /\ faulted = FALSE
    /\ call = NoCall
    /\ rx_ring_buf = [i \in RingCells |-> 0]
    /\ rx_head = 0
    /\ rx_tail = 0
    /\ rx_sem = 0
    /\ recv = RecvIdle
    /\ wire = Wire0

\* k_uptime_get() returns a value in 1..MaxUptime (milliseconds since boot)
MaxUptime == 1
\* a read is started only while the invoke-id is below this
MaxInvokeId == 4
\* what the caller's record may hold when it is passed in
CallerRecords == {UsedReadings}

\* the public functions are called one at a time, by a caller idle between
\* the calls
Idle == ~faulted /\ call.op = "none"

MeterInit ==
    /\ Idle
    /\ \E ok \in BOOLEAN :
         Install("meter_init", meter_init(Sess, << >>, ok), ZeroReadings,
                 ZeroReadings, FALSE, NoDelivery)

MeterSetConfig ==
    /\ Idle
    /\ \E has_cfg \in BOOLEAN :
         Install("meter_set_config",
                 [s |-> meter_set_config(Sess, CustomCfg, has_cfg),
                  ret |-> 0, lg |-> << >>, fault |-> FALSE],
                 ZeroReadings, ZeroReadings, FALSE, NoDelivery)

MeterConnect(env) ==
    /\ Idle
    /\ \E r \in meter_connect(env, Sess, << >>) :
         Install("meter_connect", r, ZeroReadings, ZeroReadings, FALSE,
                 NoDelivery)

MeterDisconnect(env) ==
    /\ Idle
    /\ \E o1 \in env.rel, o2 \in env.rel :
         Install("meter_disconnect", meter_disconnect(Sess, << >>, o1, o2),
                 ZeroReadings, ZeroReadings, FALSE, << o1, o2 >>)

MeterReadAll(env) ==
    /\ Idle
    /\ cosem_invoke_id < MaxInvokeId
    /\ \E has_rd \in BOOLEAN, now \in 1..MaxUptime, rd0 \in CallerRecords :
         \E r \in meter_read_all(env, Sess, << >>, rd0, has_rd, now) :
           Install("meter_read_all", r, rd0, r.rd, has_rd, NoDelivery)

MeterPoll(env) ==
    /\ Idle
    /\ \E has_rd \in BOOLEAN, now \in 1..MaxUptime, rd0 \in CallerRecords :
         \E r \in meter_poll(env, Sess, << >>, rd0, has_rd, now) :
           Install("meter_poll", r, rd0, r.rd, has_rd, r.rx)

\* the caller takes the result and goes on
CallerResumes ==
    /\ ~faulted
    /\ call.op # "none"
    /\ call' = [NoCall EXCEPT !.before = call.since, !.since = call.since]
    /\ UNCHANGED << state, cfg, hdlc_send_seq, hdlc_recv_seq, cosem_invoke_id,
                    hdlc_client_addr, hdlc_server_addr, scaler_cache,
                    scaler_cached, obis_skip, uart_dev, faulted >>
    /\ UNCHANGED uart_vars

\* The reader: initialised, connected, read and disconnected against the
\* meter of EnvRead, polled against the meter of EnvPoll.
Next ==
    \/ MeterInit
    \/ MeterConnect(EnvRead)
    \/ MeterDisconnect(EnvRead)
    \/ MeterReadAll(EnvRead)
    \/ MeterPoll(EnvPoll)
    \/ CallerResumes

Spec == Init /\ [][Next]_vars

\* Connection set-up and release against every delivery of EnvLink, with the
\* configuration changed between the calls.
NextLink ==
    \/ MeterInit
    \/ MeterSetConfig
    \/ MeterConnect(EnvLink)
    \/ MeterDisconnect(EnvLink)
    \/ CallerResumes

SpecLink == Init /\ [][NextLink]_vars

\* A meter that may refuse the link or the association, polled.
EnvPollAll ==
    [snrm |-> {RxEagain, RxBytes(RX_UA), RxBytes(RX_DM)},
     aarq |-> {RxEagain, RxBytes(RX_AARE_OK), RxBytes(RX_AARE_REJ)},
     rel |-> {RxEagain, RxBytes(RX_UA)},
     get |-> {RxEagain, RxBytes(RX_GET_VAL), RxBytes(RX_GET_DENIED),
              RxBytes(RX_GET_SCALER)},
     stack |-> {<< >>}]
\* Poll cycles only, against every answer of EnvPollAll.
NextPoll ==
    \/ MeterInit
    \/ MeterPoll(EnvPollAll)
    \/ CallerResumes

SpecPoll == Init /\ [][NextPoll]_vars

\* A meter that answers a GET with a value, an access error or a scaler-unit
\* structure, or stays silent.
EnvCache ==
    [EnvRead EXCEPT
       !.get = {RxEagain, RxBytes(RX_GET_VAL), RxBytes(RX_GET_DENIED),
                RxBytes(RX_GET_SCALER)}]
\* The same meter when it answers every GET.
EnvCachePoll ==
    [EnvRead EXCEPT !.get = {RxBytes(RX_GET_VAL), RxBytes(RX_GET_SCALER)}]
\* The reader of Next against a meter that also gives scaler-unit structures.
NextCache ==
    \/ MeterInit
    \/ MeterConnect(EnvCache)
    \/ MeterDisconnect(EnvCache)
    \/ MeterReadAll(EnvCache)
    \/ MeterPoll(EnvCachePoll)
    \/ CallerResumes

SpecCache == Init /\ [][NextCache]_vars

\* Sessions of reads without meter_poll, against every answer of EnvGet.
NextGet ==
    \/ MeterInit
    \/ MeterConnect(EnvGet)
    \/ MeterDisconnect(EnvGet)
    \/ MeterReadAll(EnvGet)
    \/ CallerResumes

SpecGet == Init /\ [][NextGet]_vars

(* ---------------- what a call did, read from its record ---------------- *)
\* the entries of kind e of the record lg, in order
Events(lg, e) == SelectSeq(lg, LAMBDA x : x.e = e)
\* the frames handed to rs485_send, in order
Handed(lg) == Events(lg, "tx")
IsSnrmFrame(f) == f[6] = HDLC_CTRL_SNRM
IsDiscFrame(f) == f[6] = HDLC_CTRL_DISC
\* an I-frame whose information field is the LLC header and a PDU with tag
IsPduFrame(f, tag) ==
    /\ Len(f) >= 12
    /\ And8(f[6], 1) = 0
    /\ SubSeq(f, 9, 11) = llc_send_hdr
    /\ f[12] = tag
IsAarqFrame(f) == IsPduFrame(f, COSEM_TAG_AARQ)
IsRlrqFrame(f) == IsPduFrame(f, COSEM_TAG_RLRQ)
\* a GET request for attribute attr of table entry i
IsGetFrame(f, i, attr) ==
    /\ IsPduFrame(f, COSEM_TAG_GET_REQUEST)
    /\ Len(f) >= 24
    /\ SubSeq(f, 17, 22) = obis_table[i].obis
    /\ f[23] = attr
\* the delivery o is a frame with good checksums
IsFrame(o) == o.k = "bytes" /\ RxMemo[o.raw].ret = 0
IsUa(o) == IsFrame(o) /\ RxMemo[o.raw].resp.control = HDLC_CTRL_UA
\* the PDU behind the LLC header of the frame delivered
DeliveredPdu(o) ==
    IF IsFrame(o) /\ RxMemo[o.raw].resp.info_len >= LLC_HDR_LEN
    THEN SubSeq(RxMemo[o.raw].resp.info, LLC_HDR_LEN + 1,
                RxMemo[o.raw].resp.info_len)
    ELSE << >>
\* pdu is an AARE that holds the element A2 03 02 01 v
HasAssociationResult(pdu, v) ==
    /\ Len(pdu) >= 1
    /\ pdu[1] = COSEM_TAG_AARE
    /\ \E i \in 1..(Len(pdu) - 4) :
         SubSeq(pdu, i, i + 4) = << \hA2, \h03, \h02, \h01, v >>

ConnectReturned == call.op = "meter_connect" /\ ~call.fault
ConnectFailed == ConnectReturned /\ call.ret < 0
DisconnectReturned == call.op = "meter_disconnect"
\* the last frame a call handed to rs485_send
LastHanded == Handed(call.lg)[Len(Handed(call.lg))]

\* C1: a meter_connect that returns a failure leaves the state Error and
\* returns the failure of the step that failed: the error of the SNRM or AARQ
\* exchange (a send error, a timeout, whatever transact returned), -EPROTO
\* for an answer to the SNRM that is not a UA, the error of cosem_parse_aare
\* for the AARE.  (The three builders cannot fail with the buffers
\* meter_connect gives them.)
C1_FailureLeavesError ==
    ConnectFailed =>
      /\ state = METER_ERROR
      /\ call.lg[Len(call.lg)] = EvRet("meter_connect", Sess, call.ret)
      /\ call.lg[Len(call.lg) - 1].e = "state"
      /\ call.lg[Len(call.lg) - 1].st = METER_ERROR
      /\ Handed(call.lg) # << >>
      /\ IsSnrmFrame(LastHanded.frame) \/ IsAarqFrame(LastHanded.frame)
      /\ LastHanded.aux < 0 => call.ret = LastHanded.aux
      /\ LastHanded.aux >= 0 /\ LastHanded.rx = RxEagain =>
            call.ret = 0 - EAGAIN
      /\ LastHanded.ret < 0 => call.ret = LastHanded.ret
      /\ LastHanded.ret = 0 /\ IsSnrmFrame(LastHanded.frame) =>
            call.ret = 0 - EPROTO /\ ~IsUa(LastHanded.rx)
      /\ LastHanded.ret = 0 /\ IsAarqFrame(LastHanded.frame) =>
            /\ call.ret \in {0 - EACCES, 0 - EPROTO, 0 - EINVAL}
            /\ HasAssociationResult(DeliveredPdu(LastHanded.rx), 1) =>
                  call.ret = 0 - EACCES
C1_Witness ==
    /\ ConnectFailed
    /\ state = METER_ERROR
    /\ call.ret = 0 - EACCES
    /\ Handed(call.lg) # << >>
    /\ IsAarqFrame(LastHanded.frame)
    /\ LastHanded.rx = RxBytes(RX_AARE_REJ)

\* C2: within meter_connect the state becomes HDLC_CONNECTED only from
\* DISCONNECTED, right after a UA was delivered in answer to the SNRM, and
\* becomes ASSOCIATED only from HDLC_CONNECTED, right after an AARE holding
\* association-result 0 was delivered in answer to the AARQ; meter_connect
\* returns 0 exactly when it leaves the state ASSOCIATED.
C2_Transitions ==
    ConnectReturned =>
      /\ \A k \in DOMAIN call.lg :
           /\ call.lg[k].e = "state" /\ call.lg[k].st = METER_HDLC_CONNECTED =>
                 /\ call.lg[k].aux = METER_DISCONNECTED
                 /\ k > 1
                 /\ call.lg[k - 1].e = "tx"
                 /\ IsSnrmFrame(call.lg[k - 1].frame)
                 /\ IsUa(call.lg[k - 1].rx)
           /\ call.lg[k].e = "state" /\ call.lg[k].st = METER_ASSOCIATED =>
                 /\ call.lg[k].aux = METER_HDLC_CONNECTED
                 /\ k > 1
                 /\ call.lg[k - 1].e = "tx"
                 /\ IsAarqFrame(call.lg[k - 1].frame)
                 /\ HasAssociationResult(DeliveredPdu(call.lg[k - 1].rx), 0)
      /\ (call.ret = 0) <=> (state = METER_ASSOCIATED)

\* C3: meter_disconnect returns 0 and leaves the state DISCONNECTED, from
\* every state and whatever the RLRQ and DISC exchanges deliver; entered in
\* DISCONNECTED (as a second call in a row is) it changes nothing and hands
\* nothing to the transport.
C3_DisconnectNeverFails ==
    DisconnectReturned =>
      /\ call.ret = 0
      /\ ~call.fault
      /\ state = METER_DISCONNECTED
      /\ call.lg[Len(call.lg)] = EvRet("meter_disconnect", Sess, 0)
      /\ call.pre.state = METER_DISCONNECTED =>
            Sess = call.pre /\ Handed(call.lg) = << >>
C3_Witness ==
    /\ DisconnectReturned
    /\ call.pre.state = METER_ASSOCIATED
    /\ call.rx = << RxBytes(RX_BADFCS), RxEagain >>
    /\ state = METER_DISCONNECTED
    /\ call.ret = 0

\* C4: meter_disconnect hands an RLRQ I-frame to the transport if and only
\* if the state on entry is ASSOCIATED.
C4_RlrqOnlyWhenAssociated ==
    DisconnectReturned =>
      ((\E k \in DOMAIN call.lg :
           call.lg[k].e = "tx" /\ IsRlrqFrame(call.lg[k].frame))
         <=> call.pre.state = METER_ASSOCIATED)

\* C5 as stated: every meter_disconnect, whatever the state on entry, hands
\* exactly one DISC frame to the transport, after the RLRQ if there is one.
C5_AlwaysOneDisc ==
    DisconnectReturned =>
      /\ Len(SelectSeq(Handed(call.lg),
                       LAMBDA x : IsDiscFrame(x.frame))) = 1
      /\ IsDiscFrame(LastHanded.frame)
\* C5, amended: a meter_disconnect entered in a state other than DISCONNECTED
\* hands exactly one DISC frame (control 0x53) to rs485_send, as the last
\* frame of the call, after the RLRQ if there is one, and all of it is sent
\* when the device is there; entered in DISCONNECTED it hands over nothing.
C5_OneDiscUnlessDisconnected ==
    DisconnectReturned =>
      IF call.pre.state = METER_DISCONNECTED
      THEN Handed(call.lg) = << >>
      ELSE /\ Handed(call.lg) # << >>
           /\ Len(Handed(call.lg)) <= 2
           /\ LastHanded.frame[6] = \h53
           /\ LastHanded.frame =
                 hdlc_build_disc(HDLC_MAX_FRAME_LEN,
                                 call.pre.hdlc_client_addr,
                                 call.pre.hdlc_server_addr).buf
           /\ call.pre.uart_dev => LastHanded.aux = Len(LastHanded.frame)
           /\ \A k \in 1..(Len(Handed(call.lg)) - 1) :
                 IsRlrqFrame(Handed(call.lg)[k].frame)
C5_Witness ==
    /\ DisconnectReturned
    /\ call.pre.state = METER_ASSOCIATED
    /\ Len(Handed(call.lg)) = 2
    /\ IsRlrqFrame(Handed(call.lg)[1].frame)
    /\ IsDiscFrame(Handed(call.lg)[2].frame)
    /\ Handed(call.lg)[2].aux = 9

\* C6 as stated: when meter_disconnect has returned, the HDLC send sequence,
\* the HDLC receive sequence and the COSEM invoke-id are all zero.
C6_AllCountersZero ==
    DisconnectReturned =>
      hdlc_send_seq = 0 /\ hdlc_recv_seq = 0 /\ cosem_invoke_id = 0
\* C6, amended: a meter_disconnect entered in a state other than DISCONNECTED
\* leaves the HDLC send and receive sequences zero; entered in DISCONNECTED
\* it leaves them as they were; it never changes the COSEM invoke-id.
C6_HdlcCountersZero ==
    DisconnectReturned =>
      /\ cosem_invoke_id = call.pre.cosem_invoke_id
      /\ call.pre.state # METER_DISCONNECTED =>
            hdlc_send_seq = 0 /\ hdlc_recv_seq = 0
      /\ call.pre.state = METER_DISCONNECTED =>
            /\ hdlc_send_seq = call.pre.hdlc_send_seq
            /\ hdlc_recv_seq = call.pre.hdlc_recv_seq
C6_Witness ==
    /\ DisconnectReturned
    /\ call.pre.state = METER_ASSOCIATED
    /\ call.pre.hdlc_send_seq > 0
    /\ call.pre.hdlc_recv_seq > 0
    /\ call.pre.cosem_invoke_id > 0
    /\ hdlc_send_seq = 0
    /\ hdlc_recv_seq = 0
    /\ cosem_invoke_id = call.pre.cosem_invoke_id

\* a meter_read_all that was given a record
ReadAllReturned == call.op = "meter_read_all" /\ call.has_rd
ReadAllRan == ReadAllReturned /\ call.pre.state = METER_ASSOCIATED

\* C7: meter_read_all, given a record in a state other than ASSOCIATED,
\* returns -ENOTCONN, hands no frame to the transport and changes neither
\* the state, the counters, the scaler cache, the skip set nor the record.
C7_NotConnectedChangesNothing ==
    ReadAllReturned /\ call.pre.state # METER_ASSOCIATED =>
      /\ call.ret = 0 - ENOTCONN
      /\ Handed(call.lg) = << >>
      /\ Events(call.lg, "get") = << >>
      /\ Sess = call.pre
      /\ call.rd = call.rd_pre
C7_Witness ==
    /\ ReadAllReturned
    /\ call.pre.state = METER_DISCONNECTED
    /\ call.pre.cosem_invoke_id > 0
    /\ \E i \in Entries : call.pre.obis_skip[i]
    /\ call.ret = 0 - ENOTCONN
    /\ call.rd = UsedReadings

\* position k of the record lg is a GET request for entry i handed over
IsGetFor(lg, k, i) ==
    /\ lg[k].e = "tx"
    /\ IsGetFrame(lg[k].frame, i, 2) \/ IsGetFrame(lg[k].frame, i, 3)

\* C8: the skip set only grows and shuts an entry out.  In a call of
\* meter_read_all, meter_poll, meter_connect or meter_disconnect an entry in
\* the skip set on entry stays in it and no GET request for it (attribute 2
\* or 3) is handed to the transport; and when a value read of an entry
\* returns -EACCES the entry is in the skip set when the call returns and
\* the rest of the call hands over no GET request for it.
C8_SkipSetMonotone ==
    call.op \in {"meter_read_all", "meter_poll", "meter_connect",
                 "meter_disconnect"} =>
      \A i \in Entries :
        /\ call.pre.obis_skip[i] =>
              /\ obis_skip[i]
              /\ \A k \in DOMAIN call.lg :
                    /\ ~IsGetFor(call.lg, k, i)
                    /\ ~(call.lg[k].e = "get" /\ call.lg[k].idx = i)
        /\ \A k \in DOMAIN call.lg :
              (/\ call.lg[k].e = "get"
               /\ call.lg[k].idx = i
               /\ call.lg[k].aux = 2
               /\ call.lg[k].ret = 0 - EACCES) =>
                /\ obis_skip[i]
                /\ \A m \in (k + 1)..Len(call.lg) : ~IsGetFor(call.lg, m, i)
C8_Witness ==
    /\ call.op = "meter_poll"
    /\ call.has_rd
    /\ call.pre.obis_skip[1]
    /\ ~call.pre.obis_skip[2]
    /\ \E k \in DOMAIN call.lg : IsGetFor(call.lg, k, 2)
    /\ \A k \in DOMAIN call.lg : ~IsGetFor(call.lg, k, 1)
    /\ obis_skip[1]

\* the value requests (attribute 2) handed over, in order
ValueRequests(lg) ==
    SelectSeq(Handed(lg),
              LAMBDA x : \E i \in Entries : IsGetFrame(x.frame, i, 2))
EntryOf(f) == CHOOSE i \in Entries : IsGetFrame(f, i, 2)
\* the members of the set of numbers S in increasing order
Ascending(S) ==
    CHOOSE q \in [1..Cardinality(S) -> S] :
      \A a, b \in 1..Cardinality(S) : a < b => q[a] < q[b]

\* C9: in a meter_read_all on an ASSOCIATED session the value requests
\* handed to the transport are one for each entry outside the skip set, in
\* table order, each sent whole, whatever the earlier requests came to; and
\* each is counted as a success or as an error.
C9_EveryEntryRequestedOnce ==
    ReadAllRan =>
      /\ [k \in DOMAIN ValueRequests(call.lg) |->
            EntryOf(ValueRequests(call.lg)[k].frame)]
           = Ascending({i \in Entries : ~call.pre.obis_skip[i]})
      /\ \A k \in DOMAIN ValueRequests(call.lg) :
            ValueRequests(call.lg)[k].aux
              = Len(ValueRequests(call.lg)[k].frame)
      /\ call.rd.read_count + call.rd.error_count
           = Len(ValueRequests(call.lg))
C9_Witness ==
    /\ ReadAllRan
    /\ Len(ValueRequests(call.lg)) = 2
    /\ ValueRequests(call.lg)[1].rx = RxBytes(RX_BADFCS)
    /\ ValueRequests(call.lg)[1].ret = 0 - EIO
    /\ EntryOf(ValueRequests(call.lg)[2].frame) = 2
    /\ ValueRequests(call.lg)[2].rx = RxBytes(RX_GET_VAL)

\* the value reads of the record lg that succeeded
ValueSuccesses(lg) ==
    {k \in DOMAIN lg : lg[k].e = "get" /\ lg[k].aux = 2 /\ lg[k].ret = 0}

\* C10: a meter_read_all on an ASSOCIATED session returns 0 exactly when one
\* value read or more of the call succeeded, and the valid flag of the
\* record is true in exactly that case; with no success it returns -EIO and
\* valid is false.
C10_PartialSuccess ==
    ReadAllRan =>
      /\ (call.ret = 0) <=> (ValueSuccesses(call.lg) # {})
      /\ call.rd.valid <=> (ValueSuccesses(call.lg) # {})
      /\ ValueSuccesses(call.lg) = {} => call.ret = 0 - EIO
      /\ call.rd.read_count = Cardinality(ValueSuccesses(call.lg))
C10_Witness ==
    /\ ReadAllRan
    /\ call.ret = 0
    /\ call.rd.valid
    /\ call.rd.read_count = 1
    /\ call.rd.error_count = 1

\* a meter_poll that was given a record and returned
PollReturned == call.op = "meter_poll" /\ call.has_rd /\ ~call.fault
\* what the calls of fn made within the call returned, in order
RetsOf(lg, fn) == SelectSeq(lg, LAMBDA x : x.e = "ret" /\ x.fn = fn)
\* the position in lg of the last entry into meter_disconnect
ClosingDisconnect(lg) ==
    CHOOSE k \in DOMAIN lg :
      /\ lg[k].e = "enter" /\ lg[k].fn = "meter_disconnect"
      /\ \A m \in (k + 1)..Len(lg) :
           ~(lg[m].e = "enter" /\ lg[m].fn = "meter_disconnect")

\* C11: when a meter_poll that was given a record returns, the state is
\* DISCONNECTED, whatever the transport delivered: the last thing the poll
\* did was a meter_disconnect, entered right after meter_connect returned a
\* failure or right after meter_read_all returned (0 or a failure), in a
\* state other than DISCONNECTED, so that it handed a DISC frame over.
C11_PollEndsDisconnected ==
    PollReturned =>
      /\ state = METER_DISCONNECTED
      /\ call.lg[Len(call.lg)] = EvRet("meter_poll", Sess, call.ret)
      /\ call.lg[Len(call.lg) - 1] = EvRet("meter_disconnect", Sess, 0)
      /\ \E k \in DOMAIN call.lg :
           /\ call.lg[k].e = "enter" /\ call.lg[k].fn = "meter_disconnect"
      /\ ClosingDisconnect(call.lg) > 1
      /\ LET k == ClosingDisconnect(call.lg)
             before == call.lg[k - 1]
         IN  /\ before.e = "ret"
             /\ \/ before.fn = "meter_connect" /\ before.ret < 0
                \/ before.fn = "meter_read_all"
             /\ call.lg[k].st = before.st
             /\ call.lg[k].st # METER_DISCONNECTED
      /\ Handed(call.lg) # << >>
      /\ IsDiscFrame(LastHanded.frame)
C11_Witness ==
    /\ PollReturned
    /\ RetsOf(call.lg, "meter_connect") # << >>
    /\ RetsOf(call.lg, "meter_connect")[1].ret = 0
    /\ RetsOf(call.lg, "meter_read_all") # << >>
    /\ RetsOf(call.lg, "meter_read_all")[1].ret = 0 - EIO
    /\ RetsOf(call.lg, "meter_read_all")[1].st = METER_ASSOCIATED
    /\ state = METER_DISCONNECTED

\* C12: a meter_poll that was given a record returns what its meter_read_all
\* returned, whatever the RLRQ and DISC exchanges of the closing
\* meter_disconnect deliver; when its meter_connect fails it returns that
\* failure, calls no meter_read_all, hands no GET request to the transport
\* and leaves the caller's record as it was.
C12_PollReturnsReadAll ==
    PollReturned =>
      /\ Len(RetsOf(call.lg, "meter_connect")) = 1
      /\ IF RetsOf(call.lg, "meter_connect")[1].ret < 0
         THEN /\ call.ret = RetsOf(call.lg, "meter_connect")[1].ret
              /\ RetsOf(call.lg, "meter_read_all") = << >>
              /\ Events(call.lg, "get") = << >>
              /\ \A k \in DOMAIN Handed(call.lg) :
                    ~IsPduFrame(Handed(call.lg)[k].frame,
                                COSEM_TAG_GET_REQUEST)
              /\ call.rd = call.rd_pre
         ELSE /\ Len(RetsOf(call.lg, "meter_read_all")) = 1
              /\ call.ret = RetsOf(call.lg, "meter_read_all")[1].ret
C12_Witness ==
    /\ PollReturned
    /\ call.rx = << RxEagain, RxEagain >>
    /\ RetsOf(call.lg, "meter_read_all") # << >>
    /\ RetsOf(call.lg, "meter_read_all")[1].ret = 0
    /\ call.ret = 0

\* the requests for attribute attr of entry i handed over in lg, in order
RequestsFor(lg, i, attr) ==
    SelectSeq(Handed(lg), LAMBDA x : IsGetFrame(x.frame, i, attr))

\* C13: an entry whose scaler is marked cached when meter_read_all or
\* meter_poll is entered (in the association in which it was cached or in a
\* later one) gets no request for attribute 3 in that call, and its mark and
\* its multiplier, 10^scaler or the fallback 1.0, are the same when the call
\* returns; meter_connect and meter_disconnect keep both as well; and no
\* call asks for the scaler of an entry twice.  (Only meter_init clears the
\* marks.)
C13_CachedScalerKept ==
    call.op \in {"meter_read_all", "meter_poll", "meter_connect",
                 "meter_disconnect"} =>
      \A i \in Entries :
        /\ Len(RequestsFor(call.lg, i, 3)) <= 1
        /\ call.pre.scaler_cached[i] =>
              /\ scaler_cached[i]
              /\ scaler_cache[i] = call.pre.scaler_cache[i]
              /\ RequestsFor(call.lg, i, 3) = << >>
              /\ \A k \in DOMAIN call.lg :
                    ~(/\ call.lg[k].e = "get"
                      /\ call.lg[k].idx = i
                      /\ call.lg[k].aux = 3)
C13_Witness ==
    /\ call.op = "meter_poll"
    /\ call.has_rd
    /\ call.pre.scaler_cached[1]
    /\ call.pre.scaler_cache[1] = Pow10(0 - 1)
    /\ call.pre.scaler_cached[2]
    /\ call.pre.scaler_cache[2] = Pow10(0)
    /\ RequestsFor(call.lg, 1, 2) # << >>
    /\ RequestsFor(call.lg, 2, 2) # << >>
    /\ RequestsFor(call.lg, 1, 3) = << >>
    /\ scaler_cache[1] = Pow10(0 - 1)
    /\ scaler_cache[2] = Pow10(0)

\* the positions in lg of the reads of attribute attr of entry i
GetsOf(lg, i, attr) ==
    {k \in DOMAIN lg : lg[k].e = "get" /\ lg[k].idx = i /\ lg[k].aux = attr}
\* pdu is a GET response that carries a structure of two elements whose
\* first is an int8
IsScalerUnit(pdu) ==
    /\ Len(pdu) >= 10
    /\ pdu[1] = COSEM_TAG_GET_RESPONSE
    /\ pdu[5] = COSEM_TYPE_STRUCTURE
    /\ pdu[6] = 2
    /\ pdu[7] = COSEM_TYPE_INT8
\* the int8 in the byte b
Int8(b) == IF b >= 128 THEN b - 256 ELSE b

\* C14: when a meter_read_all on an ASSOCIATED session returns, every entry
\* outside the skip set on entry is marked cached.  An entry not yet cached
\* on entry had one scaler read, before every value read of the call; when
\* that read failed (send error, timeout, bad frame: it returned an error)
\* or its answer was not a scaler-unit structure the multiplier is 1.0,
\* otherwise it is 10^scaler; and the entry got its value request in the
\* same call all the same.
C14_ScalerFailureFallsBack ==
    ReadAllRan =>
      \A i \in Entries :
        ~call.pre.obis_skip[i] =>
          /\ scaler_cached[i]
          /\ Len(RequestsFor(call.lg, i, 2)) = 1
          /\ Cardinality(GetsOf(call.lg, i, 2)) = 1
          /\ ~call.pre.scaler_cached[i] =>
                /\ Cardinality(GetsOf(call.lg, i, 3)) = 1
                /\ Len(RequestsFor(call.lg, i, 3)) = 1
                /\ \A k \in GetsOf(call.lg, i, 3) :
                     \A j \in Entries : \A m \in GetsOf(call.lg, j, 2) : k < m
                /\ LET rq == RequestsFor(call.lg, i, 3)[1]
                       failed == \E k \in GetsOf(call.lg, i, 3) :
                                    call.lg[k].ret < 0
                   IN  /\ failed <=> rq.ret < 0
                       /\ failed => scaler_cache[i] = Pow10(0)
                       /\ ~failed /\ ~IsScalerUnit(DeliveredPdu(rq.rx)) =>
                             scaler_cache[i] = Pow10(0)
                       /\ ~failed /\ IsScalerUnit(DeliveredPdu(rq.rx)) =>
                             scaler_cache[i]
                               = Pow10(Int8(DeliveredPdu(rq.rx)[8]))
C14_Witness ==
    /\ ReadAllRan
    /\ ~call.pre.obis_skip[1]
    /\ ~call.pre.scaler_cached[1]
    /\ RequestsFor(call.lg, 1, 3) # << >>
    /\ RequestsFor(call.lg, 1, 3)[1].rx = RxBytes(RX_BADFCS)
    /\ RequestsFor(call.lg, 1, 3)[1].ret = 0 - EIO
    /\ scaler_cached[1]
    /\ scaler_cache[1] = Pow10(0)
    /\ RequestsFor(call.lg, 1, 2) # << >>
    /\ RequestsFor(call.lg, 1, 2)[1].rx = RxBytes(RX_GET_VAL)
    /\ call.rd.read_count >= 1

\* C15: meter_connect and meter_disconnect, whatever their exchanges come
\* to, leave the scaler cache (multipliers and marks) and the skip set as
\* they were, and so does a meter_poll whose meter_connect fails; a
\* meter_connect entered in ASSOCIATED, which disconnects and connects
\* again, is such a call.
C15_ConnectKeepsCacheAndSkip ==
    (\/ call.op \in {"meter_connect", "meter_disconnect"}
     \/ /\ PollReturned
        /\ RetsOf(call.lg, "meter_read_all") = << >>) =>
      /\ scaler_cache = call.pre.scaler_cache
      /\ scaler_cached = call.pre.scaler_cached
      /\ obis_skip = call.pre.obis_skip
C15_Witness ==
    /\ call.op = "meter_connect"
    /\ call.pre.state = METER_ASSOCIATED
    /\ call.ret = 0
    /\ state = METER_ASSOCIATED
    /\ \E k \in DOMAIN call.lg :
         call.lg[k].e = "tx" /\ IsDiscFrame(call.lg[k].frame)
    /\ call.pre.obis_skip[1]
    /\ call.pre.scaler_cached[2]
    /\ call.pre.scaler_cache[2] = Pow10(0 - 1)
    /\ obis_skip[1]
    /\ scaler_cached[2]
    /\ scaler_cache[2] = Pow10(0 - 1)

\* pdu is a normal GET response that carries a data-access-result
IsAccessError(pdu) ==
    /\ Len(pdu) >= 4
    /\ pdu[1] = COSEM_TAG_GET_RESPONSE
    /\ pdu[2] = GET_RESPONSE_NORMAL
    /\ pdu[4] = 1
\* the value reads of the record lg that failed
ValueFailures(lg) ==
    {k \in DOMAIN lg : lg[k].e = "get" /\ lg[k].aux = 2 /\ lg[k].ret # 0}

\* C16: in a meter_read_all on an ASSOCIATED session an entry is in the skip
\* set on return exactly when it was in it on entry or its value read
\* returned -EACCES, and a value read returns -EACCES exactly when the
\* exchange delivered a GET response carrying a data-access-result; every
\* failed value read, of whatever kind, adds one to error_count, and after
\* any other failure (timeout, checksum mismatch, protocol error,
\* unsupported or truncated data) the entry is outside the skip set, where
\* the next meter_read_all requests it again.
C16_SkipOnlyOnAccessDenied ==
    ReadAllRan =>
      /\ call.rd.error_count = Cardinality(ValueFailures(call.lg))
      /\ \A i \in Entries :
           /\ obis_skip[i] <=>
                \/ call.pre.obis_skip[i]
                \/ \E k \in GetsOf(call.lg, i, 2) :
                      call.lg[k].ret = 0 - EACCES
           /\ \A k \in GetsOf(call.lg, i, 2) :
                /\ RequestsFor(call.lg, i, 2) # << >>
                /\ LET rq == RequestsFor(call.lg, i, 2)[1]
                   IN  /\ call.lg[k].ret = 0 - EACCES <=>
                             /\ rq.ret = 0
                             /\ IsAccessError(DeliveredPdu(rq.rx))
                       /\ rq.ret < 0 => call.lg[k].ret = rq.ret
C16_Witness ==
    /\ ReadAllRan
    /\ GetsOf(call.lg, 1, 2) # {}
    /\ \A k \in GetsOf(call.lg, 1, 2) : call.lg[k].ret = 0 - ENOTSUP
    /\ ~obis_skip[1]
    /\ GetsOf(call.lg, 2, 2) # {}
    /\ \A k \in GetsOf(call.lg, 2, 2) : call.lg[k].ret = 0 - EACCES
    /\ ~call.pre.obis_skip[2]
    /\ obis_skip[2]
    /\ call.rd.error_count = 2

\* the double a successful read of the answer RX_GET_VAL (the uint16 0x0929)
\* gives for entry i with the multiplier c
ValOfGetVal(c) ==
    [k |-> "u64", bits |-> Widen(<< \h09, \h29 >>, FALSE), e |-> c.exp]

\* C17: the record a meter_read_all on an ASSOCIATED session returns is made
\* by that call alone, whatever it held before: read_count and error_count
\* are the numbers of this call's value reads that succeeded and that
\* failed, the time stamp is this call's, the slot of every entry that was
\* skipped or whose read failed holds 0.0, and the slot of an entry read
\* holds the value delivered times the entry's multiplier.
C17_RecordIsFresh ==
    ReadAllRan =>
      /\ call.rd.read_count = Cardinality(ValueSuccesses(call.lg))
      /\ call.rd.error_count = Cardinality(ValueFailures(call.lg))
      /\ call.rd.read_count + call.rd.error_count
           = Cardinality({i \in Entries : ~call.pre.obis_skip[i]})
      /\ call.rd.timestamp_ms \in 1..MaxUptime
      /\ DOMAIN call.rd.vals = Fields
      /\ \A i \in Entries :
           IF \/ call.pre.obis_skip[i]
              \/ \E k \in GetsOf(call.lg, i, 2) : call.lg[k].ret # 0
           THEN call.rd.vals[obis_table[i].offset] = DblZero
           ELSE /\ RequestsFor(call.lg, i, 2) # << >>
                /\ RequestsFor(call.lg, i, 2)[1].rx = RxBytes(RX_GET_VAL)
                /\ call.rd.vals[obis_table[i].offset]
                     = ValOfGetVal(scaler_cache[i])
C17_Witness ==
    /\ ReadAllRan
    /\ call.rd_pre = UsedReadings
    /\ call.pre.obis_skip[1]
    /\ \E k \in GetsOf(call.lg, 2, 2) : call.lg[k].ret = 0 - EAGAIN
    /\ call.rd.vals[obis_table[1].offset] = DblZero
    /\ call.rd.vals[obis_table[2].offset] = DblZero
    /\ call.rd.read_count = 0
    /\ call.rd.error_count = 1
    /\ ~call.rd.valid

(* ---------------- the framing codec on its own -------------------------- *)
\* HDLC addresses a caller may pass: the two the session computes from
\* set_defaults, the flag value and the largest byte
HdlcAddrs == {\h03, \h7E, \hFF}
Seqs == 0..7
\* the bytes short information fields are made of, and their largest length
InfoBytes == {\h00, \h7E, \hFF}
MaxInfoLen == 2
\* an information field of n bytes
LongInfo(n) == [k \in 1..n |-> (k * 37) % 256]
\* information fields: none, the short ones, and those at and beyond the
\* largest length hdlc_build_iframe takes
InfoFields ==
    {<< >>}
      \cup UNION {[1..n -> InfoBytes] : n \in 1..MaxInfoLen}
      \cup {LongInfo(HDLC_MAX_INFO_LEN - 1), LongInfo(HDLC_MAX_INFO_LEN),
            LongInfo(HDLC_MAX_INFO_LEN + 1)}
\* struct hdlc_params values, and NULL
ParamSets ==
    {HdlcNoParams,
     [present |-> TRUE, max_info_tx |-> 128, max_info_rx |-> 128,
      window_tx |-> 1, window_rx |-> 1],
     [present |-> TRUE, max_info_tx |-> 512, max_info_rx |-> 1024,
      window_tx |-> 7, window_rx |-> 7]}

\* b with bit k of its byte at TLA+ index i flipped
FlipAt(b, i, k) == [b EXCEPT ![i] = Xor8Tab[b[i]][2 ^ k]]

\* the builder inputs whose frames are corrupted bit by bit
CorruptAddrs == {<< \h21, \h03 >>, << \hFF, \h7E >>}
CorruptSeqs == {<< 0, 0 >>, << 3, 5 >>, << 7, 7 >>}
CorruptInfos == UNION {[1..n -> InfoBytes] : n \in 1..MaxInfoLen}
\* the frames the three builders give for those inputs
BuiltFrames ==
    {hdlc_build_iframe(HDLC_MAX_FRAME_LEN, a[1], a[2], q[1], q[2],
                       Ptr(info), Len(info)).buf
       : a \in CorruptAddrs, q \in CorruptSeqs, info \in CorruptInfos}
      \cup {hdlc_build_iframe(HDLC_MAX_FRAME_LEN, \h21, \h03, 3, 5,
                              Ptr(LongInfo(HDLC_MAX_INFO_LEN)),
                              HDLC_MAX_INFO_LEN).buf}
      \cup {hdlc_build_snrm(HDLC_MAX_FRAME_LEN, a[1], a[2], p).buf
              : a \in CorruptAddrs, p \in ParamSets}
      \cup {hdlc_build_disc(HDLC_MAX_FRAME_LEN, a[1], a[2]).buf
              : a \in CorruptAddrs}

\* the bytes receive buffers are made of, and their largest length
FindBytes == {HDLC_FLAG, \h00, \hA0}
MaxBufLen == 5
RawBuffers == UNION {[1..n -> FindBytes] : n \in 0..MaxBufLen}

\* a codec function, called by an idle caller with the inputs in, gave out
CodecCall(op, in, out) ==
    /\ call' = [op |-> op, in |-> in, out |-> out, since |-> call.since]
    /\ UNCHANGED << state, cfg, hdlc_send_seq, hdlc_recv_seq, cosem_invoke_id,
                    hdlc_client_addr, hdlc_server_addr, scaler_cache,
                    scaler_cached, obis_skip, uart_dev, faulted >>
    /\ UNCHANGED uart_vars
\* hdlc_parse_frame and hdlc_find_frame of what a builder gave, when it gave
\* a frame
ParseBuilt(b) ==
    [built |-> b,
     parsed |-> IF b.ret > 0 THEN hdlc_parse_frame(b.buf)
                ELSE [ret |-> b.ret, frame |-> ZeroFrame],
     found |-> IF b.ret > 0 THEN hdlc_find_frame(b.buf)
               ELSE [ret |-> b.ret, frame_start |-> 0, frame_len |-> 0]]

\* arguments of hdlc_build_iframe: buf_size is the size of the output
\* buffer, info the bytes at the info pointer (none when info_null)
IframeArgs(buf_size, a, q, info_null, info, info_len) ==
    [buf_size |-> buf_size, client_addr |-> a[1], server_addr |-> a[2],
     send_seq |-> q[1], recv_seq |-> q[2], info_null |-> info_null,
     info |-> info, info_len |-> info_len]
\* the bytes of the whole frame for n bytes of information
FrameBytes(n) == 1 + 2 + 1 + 1 + 1 + 2 + n + 2 + 1
\* callers with the session's buffer and the bytes they announce; callers
\* that pass NULL with some length; callers whose output buffer is up to one
\* byte short of the frame, or just takes it
IframeCalls ==
    {IframeArgs(HDLC_MAX_FRAME_LEN, << c, s >>, << ss, rs >>, FALSE, info,
                Len(info))
       : c \in HdlcAddrs, s \in HdlcAddrs, ss \in Seqs, rs \in Seqs,
         info \in InfoFields}
      \cup {IframeArgs(HDLC_MAX_FRAME_LEN, a, q, TRUE, << >>, n)
               : a \in CorruptAddrs, q \in CorruptSeqs,
                 n \in {0, 1, HDLC_MAX_INFO_LEN, HDLC_MAX_INFO_LEN + 1}}
      \cup UNION {{IframeArgs(size, a, q, FALSE, info, Len(info))
                     : size \in {0, 6, FrameBytes(Len(info)) - 1,
                                 FrameBytes(Len(info))}}
                    : a \in CorruptAddrs, q \in CorruptSeqs,
                      info \in CorruptInfos
                               \cup {LongInfo(HDLC_MAX_INFO_LEN),
                                     LongInfo(HDLC_MAX_INFO_LEN + 1)}}
HdlcBuildIframe ==
    Idle /\
    \E in \in IframeCalls :
      CodecCall("hdlc_build_iframe", in,
                ParseBuilt(hdlc_build_iframe(
                             in.buf_size, in.client_addr, in.server_addr,
                             in.send_seq, in.recv_seq,
                             IF in.info_null THEN NullPtr ELSE Ptr(in.info),
                             in.info_len)))
HdlcBuildSnrm ==
    Idle /\
    \E client \in HdlcAddrs, server \in HdlcAddrs, params \in ParamSets :
      CodecCall("hdlc_build_snrm",
                [client_addr |-> client, server_addr |-> server,
                 params |-> params],
                ParseBuilt(hdlc_build_snrm(HDLC_MAX_FRAME_LEN, client, server,
                                           params)))
HdlcBuildDisc ==
    Idle /\
    \E client \in HdlcAddrs, server \in HdlcAddrs :
      CodecCall("hdlc_build_disc",
                [client_addr |-> client, server_addr |-> server],
                ParseBuilt(hdlc_build_disc(HDLC_MAX_FRAME_LEN, client,
                                           server)))
\* hdlc_parse_frame of a built frame with one bit between its flags flipped
HdlcParseCorrupted ==
    Idle /\
    \E f \in BuiltFrames :
      \E i \in 2..(Len(f) - 1), k \in 0..7 :
        CodecCall("hdlc_parse_frame", [frame |-> f, byte |-> i, bit |-> k],
                  hdlc_parse_frame(FlipAt(f, i, k)))
HdlcFindFrame ==
    Idle /\
    \E raw \in RawBuffers :
      CodecCall("hdlc_find_frame", [data |-> raw], hdlc_find_frame(raw))

NextHdlc ==
    \/ HdlcBuildIframe
    \/ HdlcBuildSnrm
    \/ HdlcBuildDisc
    \/ HdlcParseCorrupted
    \/ HdlcFindFrame
    \/ CallerResumes

SpecHdlc == Init /\ [][NextHdlc]_vars

\* a builder was called and gave a frame that hdlc_parse_frame takes as
\* valid, with the addresses and the control byte ctrl and with the bytes
\* info as its information field
RoundTrip(ctrl, info) ==
    /\ call.out.built.ret = Len(call.out.built.buf)
    /\ call.out.built.ret = IF info = << >> THEN 9 ELSE Len(info) + 11
    /\ call.out.parsed.ret = 0
    /\ call.out.parsed.frame.valid
    /\ call.out.parsed.frame.dst_addr = call.in.server_addr
    /\ call.out.parsed.frame.src_addr = call.in.client_addr
    /\ call.out.parsed.frame.control = ctrl
    /\ call.out.parsed.frame.info_len = Len(info)
    /\ call.out.parsed.frame.info = info

\* C18: the frame hdlc_build_iframe gives for an information field of 1 to
\* 256 bytes, for every pair of addresses and all sequence numbers 0..7, in
\* an output buffer that has room for the frame, is
\* taken by hdlc_parse_frame as valid, with the server address as
\* destination, the client address as source, the control byte
\* recv_seq * 32 + 16 + send_seq * 2 and the same information field; so are
\* the frames of hdlc_build_snrm (control 0x93; without parameters no
\* information field, with parameters the field the builder wrote) and of
\* hdlc_build_disc (control 0x53, no information field).
C18_BuildParseRoundTrip ==
    /\ (/\ call.op = "hdlc_build_iframe"
        /\ Len(call.in.info) \in 1..256
        /\ call.in.buf_size >= Len(call.in.info) + 11) =>
          RoundTrip(call.in.recv_seq * 32 + 16 + call.in.send_seq * 2,
                    call.in.info)
    /\ call.op = "hdlc_build_snrm" =>
          /\ ~call.in.params.present => RoundTrip(\h93, << >>)
          /\ call.in.params.present =>
                /\ Len(call.out.built.buf) > 11
                /\ RoundTrip(\h93,
                             SubSeq(call.out.built.buf, 9,
                                    Len(call.out.built.buf) - 3))
                /\ SubSeq(call.out.parsed.frame.info, 1, 2)
                     = << \h81, \h80 >>
    /\ call.op = "hdlc_build_disc" => RoundTrip(\h53, << >>)
C18_Witness ==
    /\ call.op = "hdlc_build_iframe"
    /\ call.in.info = LongInfo(256)
    /\ call.in.send_seq = 7
    /\ call.in.recv_seq = 7
    /\ call.in.client_addr = \h7E
    /\ call.out.built.ret = 267
    /\ call.out.parsed.ret = 0
    /\ call.out.parsed.frame.valid
    /\ call.out.parsed.frame.control = \hFE
    /\ call.out.parsed.frame.info = call.in.info

\* C19 as stated: hdlc_parse_frame of a built frame with any one bit
\* between its flag bytes flipped returns -EIO and marks no frame valid.
C19_FlipGivesChecksumMismatch ==
    call.op = "hdlc_parse_frame" =>
      call.out.ret = 0 - EIO /\ ~call.out.frame.valid
\* C19, amended: hdlc_parse_frame of a built frame with any one bit between
\* its flag bytes flipped fails and marks no frame valid: it returns -EINVAL
\* when the bit is one of the four format-type bits (bits 4..7 of the byte
\* after the opening flag), which are tested before any checksum, and -EIO
\* for every other bit.
C19_FlipIsRejected ==
    call.op = "hdlc_parse_frame" =>
      /\ call.out.ret < 0
      /\ ~call.out.frame.valid
      /\ IF call.in.byte = 2 /\ call.in.bit >= 4
         THEN call.out.ret = 0 - EINVAL
         ELSE call.out.ret = 0 - EIO
C19_Witness ==
    /\ call.op = "hdlc_parse_frame"
    /\ Len(call.in.frame) = 13
    /\ call.in.byte = 10
    /\ call.in.bit = 7
    /\ call.out.ret = 0 - EIO
    /\ ~call.out.frame.valid
    /\ call.out.frame.info_len = 2

\* the ways to cut the buffer b into g bytes without a flag, k flags, m
\* bytes without a flag, a flag, and the rest
Regions(b) ==
    {d \in (0..Len(b)) \X (1..Len(b)) \X (1..Len(b)) :
       /\ d[1] + d[2] + d[3] + 1 <= Len(b)
       /\ \A j \in 1..d[1] : b[j] # \h7E
       /\ \A j \in (d[1] + 1)..(d[1] + d[2]) : b[j] = \h7E
       /\ \A j \in (d[1] + d[2] + 1)..(d[1] + d[2] + d[3]) : b[j] # \h7E
       /\ b[d[1] + d[2] + d[3] + 1] = \h7E}

\* C20: for a buffer of g bytes without a flag, then k flags, then m >= 1
\* bytes without a flag, then a flag, then anything, hdlc_find_frame returns
\* 0 with the start g + k - 1 (the last flag of the run) and the length
\* m + 2; for every other buffer (no flag at all, or no closing flag behind
\* the opening one) it returns -EAGAIN.
C20_FindFrameRegion ==
    call.op = "hdlc_find_frame" =>
      IF Regions(call.in.data) # {}
      THEN \A d \in Regions(call.in.data) :
             /\ call.out.ret = 0
             /\ call.out.frame_start = d[1] + d[2] - 1
             /\ call.out.frame_len = d[3] + 2
      ELSE call.out.ret = 0 - EAGAIN

(* ---------------- claims about the codecs' contracts -------------------- *)
\* C21: hdlc_build_iframe returns -EINVAL when the info pointer is NULL, when
\* info_len is 0 and when info_len is above 256, and then writes nothing to
\* the output buffer; when the information field is acceptable but the
\* output buffer is smaller than the frame (info_len + 11 bytes) it fails
\* and writes nothing either.
C21_IframeRejectsWriteNothing ==
    call.op = "hdlc_build_iframe" =>
      /\ (\/ call.in.info_null
          \/ call.in.info_len = 0
          \/ call.in.info_len > 256) =>
            /\ call.out.built.ret = 0 - EINVAL
            /\ call.out.built.buf = << >>
      /\ (/\ ~call.in.info_null
          /\ call.in.info_len \in 1..256
          /\ call.in.buf_size < call.in.info_len + 11) =>
            /\ call.out.built.ret < 0
            /\ call.out.built.buf = << >>
\* a NULL pointer with a length of 1, refused
C21_Witness ==
    /\ call.op = "hdlc_build_iframe"
    /\ call.in.info_null
    /\ call.in.info_len = 1
    /\ call.in.buf_size = HDLC_MAX_FRAME_LEN
    /\ call.out.built.ret = 0 - EINVAL
    /\ call.out.built.buf = << >>

(* ---------------- the COSEM codec on its own ---------------------------- *)
\* invoke ids, class ids (uint16_t), OBIS codes and attribute ids (int8_t) a
\* caller may pass
InvokeIds == {0, 1, 127, 128, 255}
ClassIds == {0, 1, 3, 255, 256, 259, 65535}
ObisCodes ==
    {<< 1, 0, 32, 7, 0, 255 >>, << 0, 0, 0, 0, 0, 0 >>,
     << 255, 254, 253, 252, 251, 250 >>}
AttributeIds == {0 - 128, 0 - 1, 0, 2, 3, 127}
AttrDescs ==
    [class_id : ClassIds, obis : ObisCodes, attribute_id : AttributeIds]
\* sizes of the output buffer: none, the PDU's own length and one less, the
\* smallest size the builder takes and one less, the session's buffer
GetBufSizes == {0, 12, 13, 15, 16, GET_PDU_SIZE}

CosemBuildGetRequest ==
    Idle /\
    \E buf_size \in GetBufSizes, invoke_id \in InvokeIds, attr \in AttrDescs :
      CodecCall("cosem_build_get_request",
                [buf_size |-> buf_size, invoke_id |-> invoke_id,
                 attr |-> attr],
                cosem_build_get_request(buf_size, invoke_id, attr))

\* AARE PDUs.  What may stand before the association-result element: nothing,
\* the application-context field, a field that begins like the element
AarePrefixes ==
    {<< >>, << \hA1, \h09, \h06, \h07 >> \o app_context_ln,
     << \hA2, \h03, \h02, \h00 >>}
\* what may stand behind it: nothing, or a result-source-diagnostic field
AareSuffixes == {<< >>, << \hA3, \h05, \hA1, \h03, \h02, \h01, \h00 >>}
\* association results: accepted, rejected-permanent, rejected-transient and
\* two values beyond
AareResults == {0, 1, 2, 128, 255}
\* the AARE made of pre, the element with result r, and post
AarePdu(pre, r, post) ==
    With(pre \o << \hA2, \h03, \h02, \h01, r >> \o post,
         LAMBDA body : << COSEM_TAG_AARE, Len(body) % 256 >> \o body)
\* PDUs without the element, with another tag, or below 3 bytes
AareOthers ==
    {<< COSEM_TAG_AARE, \h00 >>,
     << COSEM_TAG_AARE, \h09, \hA1 >>
       \o << \h09, \h06, \h07 >> \o << \h60, \h85, \h74, \h05 >>,
     << COSEM_TAG_AARQ >> \o Tail(AarePdu(<< >>, 0, << >>)),
     << COSEM_TAG_AARE, \h04, \hA2, \h03, \h02, \h01 >>}
CosemParseAare ==
    Idle /\
    \/ \E pre \in AarePrefixes, r \in AareResults, post \in AareSuffixes :
         CodecCall("cosem_parse_aare",
                   [data |-> AarePdu(pre, r, post), element |-> TRUE,
                    pre |-> pre, result |-> r, post |-> post],
                   cosem_parse_aare(AarePdu(pre, r, post),
                                    Len(AarePdu(pre, r, post))))
    \/ \E pdu \in AareOthers :
         CodecCall("cosem_parse_aare",
                   [data |-> pdu, element |-> FALSE, pre |-> << >>,
                    result |-> 0, post |-> << >>],
                   cosem_parse_aare(pdu, Len(pdu)))
\* PDUs of 3 to 7 bytes with the AARE tag, and what may lie in memory behind
\* the len bytes handed in
AareShorts ==
    {<< COSEM_TAG_AARE, \h01, \h00 >>, << COSEM_TAG_AARE, \h01, \hA2 >>,
     << COSEM_TAG_AARE, \h02, \hA2, \h03 >>,
     << COSEM_TAG_AARE, \h03, \hA2, \h03, \h02 >>,
     << COSEM_TAG_AARE, \h04, \hA2, \h03, \h02, \h01 >>,
     << COSEM_TAG_AARE, \h05, \hA2, \h03, \h02, \h01, \h00 >>,
     << COSEM_TAG_AARE, \h05, \hA2, \h03, \h02, \h01, \h01 >>}
AareTails ==
    {<< \h00, \h00, \h00, \h00, \h00, \h00, \h00, \h00 >>,
     << \hA2, \h03, \h02, \h01, \h00, \h00, \h00, \h00 >>,
     << \hA2, \h03, \h02, \h01, \h01, \h00, \h00, \h00 >>,
     << \h03, \h02, \h01, \h00, \h00, \h00, \h00, \h00 >>,
     << \h00, \h00, \h00, \h00, \hA2, \h03, \h02, \h01 >>}
\* cosem_parse_aare(data, len) with the bytes tail in memory behind data[len - 1]
CosemParseAareShort ==
    Idle /\
    \E pdu \in AareShorts, tail \in AareTails :
      CodecCall("cosem_parse_aare_short", [pdu |-> pdu, tail |-> tail],
                cosem_parse_aare(pdu \o tail, Len(pdu)))
\* Encoded data.  The type tags of dlms_cosem.h and four that are not there
SupportedTags ==
    {COSEM_TYPE_NULL_DATA, COSEM_TYPE_BOOLEAN, COSEM_TYPE_INT8,
     COSEM_TYPE_UINT8, COSEM_TYPE_INT16, COSEM_TYPE_UINT16,
     COSEM_TYPE_INT32, COSEM_TYPE_UINT32, COSEM_TYPE_INT64,
     COSEM_TYPE_UINT64, COSEM_TYPE_FLOAT32, COSEM_TYPE_FLOAT64,
     COSEM_TYPE_OCTET_STRING, COSEM_TYPE_VISIBLE_STRING, COSEM_TYPE_ENUM,
     COSEM_TYPE_STRUCTURE, COSEM_TYPE_ARRAY}
OtherTags == {\h04, \h0D, \h13, \hFF}
\* the largest number of bytes behind the tag
MaxPayload == 9
\* payloads of n bytes: zeros, ones, the smallest and the largest signed
\* number, a count, and the bytes of 300 and of the float 220.5 at the end
Payloads(n) ==
    {[k \in 1..n |-> 0], [k \in 1..n |-> 255],
     [k \in 1..n |-> IF k = 1 THEN 128 ELSE 0],
     [k \in 1..n |-> IF k = 1 THEN 127 ELSE 255],
     [k \in 1..n |-> k],
     [k \in 1..n |-> IF k = n - 1 THEN 1 ELSE IF k = n THEN \h2C ELSE 0],
     [k \in 1..n |-> IF n = 4 THEN << \h43, \h5C, \h80, \h00 >>[k] ELSE 254]}
\* declared string lengths around the size of the capture buffer
StringLens == {0, 1, 2, RAW_DATA_SIZE - 1, RAW_DATA_SIZE, RAW_DATA_SIZE + 1,
               255}
\* a string tag, a declared length and one byte less, as many or one more
StringData ==
    UNION {{<< tag, slen >> \o LongInfo(m)
              : m \in {n \in {slen - 1, slen, slen + 1} : n >= 0}}
             : tag \in {COSEM_TYPE_OCTET_STRING, COSEM_TYPE_VISIBLE_STRING},
               slen \in StringLens}
DecodeData ==
    {<< >>}
      \cup UNION {{<< tag >> \o p : p \in Payloads(n)}
                    : tag \in SupportedTags \cup OtherTags,
                      n \in 0..MaxPayload}
      \cup StringData
\* what the caller's struct cosem_get_result may hold before the call: zeros,
\* or the outcome of an earlier successful parse
StaleResult ==
    [success |-> TRUE, data_type |-> COSEM_TYPE_UINT16, rep |-> "int",
     bits |-> << 0, 0, 0, 0, 0, 0, \h09, \h29 >>, raw |-> << >>]
ResultsBefore == {ZeroResult, StaleResult}

CosemDecodeData ==
    Idle /\
    \E data \in DecodeData, result \in ResultsBefore :
      CodecCall("cosem_decode_data", [data |-> data, result |-> result],
                cosem_decode_data(data, result))

\* GET.response PDUs.  Data-Access-Result codes
AccessResults == {1, 2, 3, 4, 9, 250, 255}
\* a GET.response-normal with choice byte 01 and the code behind it
DeniedPdu(invoke_id, code) ==
    << COSEM_TAG_GET_RESPONSE, GET_RESPONSE_NORMAL, invoke_id, \h01, code >>
\* responses with a value, with another choice, subtype or tag, and short
\* ones
OtherResponses ==
    {<< COSEM_TAG_GET_RESPONSE, GET_RESPONSE_NORMAL, \hC1, \h00 >> \o d
       : d \in {<< >>, << COSEM_TYPE_UINT16, \h09, \h29 >>,
                << COSEM_TYPE_UINT32, 0, 0, \h01 >>,
                << COSEM_TYPE_INT8, \hFF >>, << \hFF, \h00 >>,
                << COSEM_TYPE_OCTET_STRING, 2, 1, 2 >>,
                << COSEM_TYPE_NULL_DATA >>}}
      \cup {<< COSEM_TAG_GET_RESPONSE, GET_RESPONSE_NORMAL, \hC1, \h01 >>,
            << COSEM_TAG_GET_RESPONSE, GET_RESPONSE_NORMAL, \hC1, \h02, 0 >>,
            << COSEM_TAG_GET_RESPONSE, GET_RESPONSE_WITH_DATABLOCK, \hC1,
               \h00, 0 >>,
            << COSEM_TAG_GET_RESPONSE, \h03, \hC1, \h01, 4 >>,
            << COSEM_TAG_GET_REQUEST, GET_RESPONSE_NORMAL, \hC1, \h01, 4 >>,
            << COSEM_TAG_GET_RESPONSE, GET_RESPONSE_NORMAL, \hC1 >>,
            << >>}
CosemParseGetResponse ==
    Idle /\
    \/ \E invoke_id \in InvokeIds, code \in AccessResults,
          result \in ResultsBefore :
         CodecCall("cosem_parse_get_response",
                   [data |-> DeniedPdu(invoke_id, code), denied |-> TRUE,
                    invoke_id |-> invoke_id, code |-> code,
                    result |-> result],
                   cosem_parse_get_response(DeniedPdu(invoke_id, code),
                                            result))
    \/ \E pdu \in OtherResponses, result \in ResultsBefore :
         CodecCall("cosem_parse_get_response",
                   [data |-> pdu, denied |-> FALSE, invoke_id |-> 0,
                    code |-> 0, result |-> result],
                   cosem_parse_get_response(pdu, result))
NextCosem ==
    \/ CosemBuildGetRequest
    \/ CosemParseAare
    \/ CosemParseAareShort
    \/ CosemParseGetResponse
    \/ CosemDecodeData
    \/ CallerResumes

SpecCosem == Init /\ [][NextCosem]_vars

\* the 13 bytes of a GET.request-normal for invoke id v and descriptor attr
GetRequestLayout(v, attr) ==
    << \hC0, \h01, v, attr.class_id \div 256, attr.class_id % 256,
       attr.obis[1], attr.obis[2], attr.obis[3], attr.obis[4], attr.obis[5],
       attr.obis[6],
       IF attr.attribute_id < 0 THEN attr.attribute_id + 256
       ELSE attr.attribute_id,
       \h00 >>

\* C22 as stated: cosem_build_get_request gives, for every invoke id and
\* attribute descriptor, a PDU of 12 bytes made of tag 0xC0, subtype 0x01,
\* the invoke id, the class id in 2 bytes big-endian, the 6 OBIS bytes, the
\* attribute id and a final zero byte, and returns 12.
C22_GetRequestIs12Bytes ==
    call.op = "cosem_build_get_request" =>
      /\ call.out.ret = 12
      /\ Len(call.out.buf) = 12
      /\ call.out.buf = GetRequestLayout(call.in.invoke_id, call.in.attr)
\* C22: given an output buffer of 16 bytes or more, cosem_build_get_request
\* gives, for every invoke id and attribute descriptor, a PDU of 13 bytes
\* made of tag 0xC0, subtype 0x01, the invoke id, the class id in 2 bytes
\* big-endian, the 6 OBIS bytes, the attribute id and a final zero byte, and
\* returns 13; given a smaller buffer it returns -EINVAL and writes nothing.
C22_GetRequestIs13Bytes ==
    call.op = "cosem_build_get_request" =>
      /\ call.in.buf_size >= 16 =>
            /\ call.out.ret = 13
            /\ Len(call.out.buf) = 13
            /\ call.out.buf
                 = GetRequestLayout(call.in.invoke_id, call.in.attr)
      /\ call.in.buf_size < 16 =>
            /\ call.out.ret = 0 - EINVAL
            /\ call.out.buf = << >>
\* class id 259 and attribute id -1 in the session's buffer
C22_Witness ==
    /\ call.op = "cosem_build_get_request"
    /\ call.in.buf_size = GET_PDU_SIZE
    /\ call.in.invoke_id = 255
    /\ call.in.attr.class_id = 259
    /\ call.in.attr.attribute_id = 0 - 1
    /\ call.out.ret = 13
    /\ call.out.buf = << \hC0, \h01, 255, 1, 3, 1, 0, 32, 7, 0, 255, 255, 0 >>

\* C23 as stated: cosem_parse_aare of a PDU with the AARE tag that holds the
\* element A2 03 02 01 r returns 0 when r is 0 and, when r is not 0, an error
\* that carries r: the return for r differs from the return for every other
\* non-zero result in the same PDU.
C23_RejectionCarriesReason ==
    (call.op = "cosem_parse_aare" /\ call.in.element) =>
      /\ ~call.out.fault
      /\ call.in.result = 0 => call.out.ret = 0
      /\ call.in.result # 0 =>
            /\ call.out.ret < 0
            /\ \A r2 \in AareResults \ {0, call.in.result} :
                 cosem_parse_aare(
                     AarePdu(call.in.pre, r2, call.in.post),
                     Len(AarePdu(call.in.pre, r2, call.in.post))).ret
                   # call.out.ret

\* C24 as stated: cosem_parse_get_response of a GET.response-normal whose
\* choice byte is 01 returns -EACCES with the result marked unsuccessful and
\* no decoded value, and what it hands back carries the Data-Access-Result
\* code: it differs from what the same response with any other code gives;
\* and for every PDU the function returns 0 exactly when the success flag of
\* the result is true.
C24_AccessDeniedCarriesCode ==
    call.op = "cosem_parse_get_response" =>
      /\ call.in.denied =>
            /\ call.out.ret = 0 - EACCES
            /\ ~call.out.result.success
            /\ call.out.result = ZeroResult
            /\ \A c2 \in AccessResults \ {call.in.code} :
                 cosem_parse_get_response(
                     DeniedPdu(call.in.invoke_id, c2), call.in.result)
                   # call.out
      /\ call.out.ret = 0 <=> call.out.result.success

\* the bytes behind the tag that the type of data takes, for the tags in
\* SupportedTags; a string takes its length byte and as many bytes as that
\* byte declares
ValueBytes(data) ==
    CASE data[1] = \h00 -> 0
      [] data[1] \in {\h03, \h0F, \h11, \h16} -> 1
      [] data[1] \in {\h10, \h12} -> 2
      [] data[1] \in {\h05, \h06, \h17} -> 4
      [] data[1] \in {\h14, \h15, \h18} -> 8
      [] data[1] \in {\h09, \h0A} ->
           IF Len(data) >= 2 THEN 1 + data[2] ELSE 1
      [] data[1] \in {\h02, \h01} -> 1
\* the tags of the signed integers
SignedTags == {\h0F, \h10, \h05, \h14}
\* the 8 bytes of the 64-bit number that the big-endian bytes b stand for:
\* b in the low bytes, and above them zeros, or ones when b is the two's
\* complement form of a negative number
As64Bits(b, signed) ==
    [k \in 1..8 |->
       IF k > 8 - Len(b) THEN b[k - (8 - Len(b))]
       ELSE IF signed /\ b[1] >= 128 THEN 255 ELSE 0]
\* the number in 8 bytes whose upper 5 bytes are zero
SmallNumber(bits) == (bits[6] * 256 + bits[7]) * 256 + bits[8]

\* C25: cosem_decode_data of data that begins with a supported type tag and
\* holds the tag's bytes returns the number of bytes consumed (null 1;
\* boolean, int8, uint8, enum 2; int16, uint16 3; int32, uint32, float32 5;
\* int64, uint64, float64 9; octet and visible string 2 + declared length;
\* structure and array 2), stores the tag as data_type, and stores the value:
\* the big-endian bytes as a 64-bit number, sign-extended for int8, int16,
\* int32 and int64 and zero-extended for the unsigned types and the element
\* count; for float32 the 4 bytes of the float and for float64 the 8 bytes of
\* the double; for a string its first bytes, at most 128.  With fewer bytes
\* than that it returns -ENODATA, and for every other tag -ENOTSUP.
C25_DecodeConsumesAndValue ==
    (call.op = "cosem_decode_data" /\ Len(call.in.data) >= 1) =>
      LET data == call.in.data
          out == call.out
      IN  IF data[1] \notin SupportedTags
          THEN out.ret = 0 - ENOTSUP
          ELSE IF Len(data) < 1 + ValueBytes(data)
          THEN out.ret = 0 - ENODATA
          ELSE /\ out.ret = 1 + ValueBytes(data)
               /\ out.result.data_type = data[1]
               /\ data[1] \in {\h09, \h0A} =>
                    /\ out.ret = 2 + data[2]
                    /\ out.result.rep = "raw"
                    /\ out.result.raw
                         = SubSeq(data, 3,
                                  2 + (IF data[2] > 128 THEN 128
                                       ELSE data[2]))
               /\ data[1] = \h17 =>
                    /\ out.result.rep = "f32"
                    /\ out.result.bits = SubSeq(data, 2, 5)
               /\ data[1] \notin {\h09, \h0A, \h17} =>
                    /\ out.result.rep = "int"
                    /\ out.result.bits
                         = As64Bits(SubSeq(data, 2, 1 + ValueBytes(data)),
                                    data[1] \in SignedTags)
\* UINT32 with the bytes 00 00 01 2C gives 300 and consumes 5 bytes
C25_Witness ==
    /\ call.op = "cosem_decode_data"
    /\ call.in.data = << \h06, \h00, \h00, \h01, \h2C >>
    /\ call.out.ret = 5
    /\ call.out.result.data_type = \h06
    /\ SubSeq(call.out.result.bits, 1, 5) = << 0, 0, 0, 0, 0 >>
    /\ SmallNumber(call.out.result.bits) = 300

(* ---------------- claims about the counters ----------------------------- *)
\* the entries of the record of the call at which an I-frame was handed to
\* transact
IFramesHanded ==
    {k \in DOMAIN call.lg :
       call.lg[k].e = "tx" /\ And8(call.lg[k].frame[6], 1) = 0}
\* among them, those with a GET request
GetsHanded ==
    {k \in IFramesHanded :
       IsPduFrame(call.lg[k].frame, COSEM_TAG_GET_REQUEST)}
\* the observer's count before the entry k of the record of the call
LineBefore(k) == LineAt(call.before, call.lg, k - 1)
\* the fields of the control byte of an I-frame and the invoke id of a GET
\* request
SendSeqOf(f) == And8(f[6] \div 2, 7)
RecvSeqOf(f) == f[6] \div 32
PollBitOf(f) == And8(f[6] \div 16, 1)
InvokeIdOf(f) == f[14]

\* C26: whatever the counters were when meter_connect was entered, the AARQ
\* I-frame it hands over carries N(S) = 0 and N(R) = 0, and the first GET
\* request handed over after it carries invoke id 0.
C26_ConnectZeroesCounters ==
    /\ \A k \in IFramesHanded :
         IsAarqFrame(call.lg[k].frame) =>
           /\ SendSeqOf(call.lg[k].frame) = 0
           /\ RecvSeqOf(call.lg[k].frame) = 0
    /\ \A k \in GetsHanded :
         LineBefore(k).gets = 0 => InvokeIdOf(call.lg[k].frame) = 0
\* a poll entered in an association whose counters have advanced
C26_Witness ==
    /\ call.op = "meter_poll"
    /\ ~call.fault
    /\ call.pre.state = METER_ASSOCIATED
    /\ call.pre.hdlc_send_seq >= 3
    /\ call.pre.hdlc_recv_seq = 2
    /\ call.pre.cosem_invoke_id >= 2
    /\ \E k \in IFramesHanded :
         /\ IsAarqFrame(call.lg[k].frame)
         /\ call.lg[k].frame[6] = \h10
         /\ \E j \in GetsHanded :
              /\ j > k
              /\ LineBefore(j).gets = 0
              /\ InvokeIdOf(call.lg[j].frame) = 0

(* ---------------- one association used for many reads ------------------- *)
\* A meter that accepts the association and then answers a GET with a value
\* or not at all.
EnvLong ==
    [snrm |-> {RxBytes(RX_UA)},
     aarq |-> {RxBytes(RX_AARE_OK)},
     rel |-> {RxEagain, RxBytes(RX_UA)},
     get |-> {RxEagain, RxBytes(RX_GET_VAL)},
     stack |-> {<< >>}]
\* a read is started only while fewer GET requests than this were handed
\* over since the latest connect
MaxGets == 258
MeterReadAllLong(env) ==
    /\ Idle
    /\ call.since.gets < MaxGets
    /\ \E now \in 1..MaxUptime, rd0 \in CallerRecords :
         \E r \in meter_read_all(env, Sess, << >>, rd0, TRUE, now) :
           Install("meter_read_all", r, rd0, r.rd, TRUE, NoDelivery)
\* Initialise, connect, read again and again in the same association,
\* disconnect.
NextLong ==
    \/ MeterInit
    \/ MeterConnect(EnvLong)
    \/ MeterReadAllLong(EnvLong)
    \/ MeterDisconnect(EnvLong)
    \/ CallerResumes

SpecLong == Init /\ [][NextLong]_vars

\* C27: the k-th I-frame handed over since the latest connect carries
\* N(S) = (k - 1) mod 8 with the poll bit set and bit 0 of the control byte
\* clear, also when the exchanges of the I-frames before it failed or timed
\* out; the send and the receive sequence are within 0..7 in every state.
C27_SendSeqCountsIFrames ==
    /\ hdlc_send_seq \in 0..7
    /\ hdlc_recv_seq \in 0..7
    /\ \A k \in IFramesHanded :
         /\ SendSeqOf(call.lg[k].frame) = LineBefore(k).iframes % 8
         /\ PollBitOf(call.lg[k].frame) = 1
         /\ call.lg[k].frame[6] % 2 = 0
\* the eighth I-frame since the connect carries N(S) = 7 and its exchange
\* times out; the ninth carries N(S) = 0
C27_Witness ==
    /\ call.op = "meter_read_all"
    /\ \E k \in IFramesHanded, j \in IFramesHanded :
         /\ j < k
         /\ call.lg[j].ret = 0 - EAGAIN
         /\ LineBefore(j).iframes = 7
         /\ SendSeqOf(call.lg[j].frame) = 7
         /\ LineBefore(k).iframes = 8
         /\ SendSeqOf(call.lg[k].frame) = 0

\* C29: the n-th GET request (for a scaler or for a value) handed over since
\* the latest connect carries invoke id (n - 1) mod 256, also when the
\* exchanges of the requests before it failed; in an association used for
\* more than 256 requests the id goes from 255 to 0.
C29_InvokeIdCountsGets ==
    /\ cosem_invoke_id \in 0..255
    /\ \A k \in GetsHanded :
         InvokeIdOf(call.lg[k].frame) = LineBefore(k).gets % 256
\* after 256 requests in one association the 257th carries 0 and times out,
\* the 258th carries 1
C29_Witness ==
    /\ call.op = "meter_read_all"
    /\ call.before.gets = 256
    /\ call.pre.state = METER_ASSOCIATED
    /\ \E k \in GetsHanded, j \in GetsHanded :
         /\ j < k
         /\ call.lg[j].ret = 0 - EAGAIN
         /\ LineBefore(j).gets = 256
         /\ InvokeIdOf(call.lg[j].frame) = 0
         /\ LineBefore(k).gets = 257
         /\ InvokeIdOf(call.lg[k].frame) = 1

(* ---------------- answers with every kind of control byte --------------- *)
\* A meter that answers the SNRM with a UA or with an I-frame, the AARQ with
\* an AARE, a UA or another I-frame, the RLRQ and the DISC with a UA, an
\* I-frame that holds an RLRE or not at all, and a GET with a value, a
\* scaler-unit structure or a UA.
EnvSeq ==
    [snrm |-> {RxBytes(RX_UA), RxBytes(RX_AARE_OK)},
     aarq |-> {RxBytes(RX_AARE_OK), RxBytes(RX_UA), RxBytes(RX_GET_SCALER)},
     rel |-> {RxEagain, RxBytes(RX_UA), RxBytes(RX_RLRE)},
     get |-> {RxBytes(RX_GET_VAL), RxBytes(RX_GET_SCALER), RxBytes(RX_UA)},
     stack |-> {<< >>}]
NextSeq ==
    \/ MeterInit
    \/ MeterConnect(EnvSeq)
    \/ MeterDisconnect(EnvSeq)
    \/ MeterReadAll(EnvSeq)
    \/ CallerResumes

SpecSeq == Init /\ [][NextSeq]_vars

SnrmsRefused ==
    {k \in DOMAIN call.lg :
       /\ call.lg[k].e = "tx"
       /\ call.lg[k].frame[6] = HDLC_CTRL_SNRM
       /\ call.lg[k].ret = 0
       /\ call.lg[k].rx.k = "bytes"
       /\ ResponseCtrl(call.lg[k]) # HDLC_CTRL_UA}
\* C30: when the answer to the SNRM is a well-formed frame whose control byte
\* is not UA (0x73), meter_connect returns -EPROTO, leaves the state
\* METER_ERROR and hands over no frame with an AARQ.
C30_NonUaAnswerFailsConnect ==
    (call.op = "meter_connect" /\ SnrmsRefused # {}) =>
      /\ call.ret = 0 - EPROTO
      /\ state = METER_ERROR
      /\ \A k \in DOMAIN call.lg :
           call.lg[k].e = "tx" =>
             ~IsPduFrame(call.lg[k].frame, COSEM_TAG_AARQ)
\* a connect whose SNRM was answered with a DM frame ended after the change
\* of state and the return
C30_Witness ==
    /\ call.op = "meter_connect"
    /\ call.ret = 0 - EPROTO
    /\ state = METER_ERROR
    /\ \E k \in SnrmsRefused :
         /\ ResponseCtrl(call.lg[k]) = HDLC_CTRL_DM
         /\ k = Len(call.lg) - 2


(* ---------------- the LLC header ---------------------------------------- *)
\* Information fields a meter may send: a PDU behind the header of either
\* direction, behind a header with another second or third byte, with no
\* header, and fields shorter than a header.
LlcPdus ==
    { << >>, << \hC4, \h01, \h00, \h00, \h12, \h09, \h29 >>,
      << \hE6, \hE7, \h00, \h61 >> }
LlcInfos ==
    { h \o p : h \in { << \hE6, \hE6, \h00 >>, << \hE6, \hE7, \h00 >>,
                       << \hE6, \hE7, \h01 >>, << \hE6, \hE5, \h00 >>,
                       << \hE7, \hE6, \h00 >>, << >> },
               p \in LlcPdus }
      \cup { << \hE6 >>, << \hE6, \hE7 >> }
\* the control bytes of the frames that hold them
LlcCtrls == {\h52, HDLC_CTRL_UA}
\* strip_iframe_llc is called on a frame that transact has parsed; the
\* caller then gives resp.info and resp.info_len to the COSEM codec
StripIframeLlc ==
    Idle /\
    \E info \in LlcInfos, ctrl \in LlcCtrls :
      LET resp == hdlc_parse_frame(MkFrame(3, 3, ctrl, info)).frame
          st == strip_iframe_llc(Sess, resp)
      IN  CodecCall("strip_iframe_llc", [resp |-> resp],
                    [resp |-> st.resp,
                     given |-> SubSeq(st.resp.info, 1, st.resp.info_len)])
\* Sessions against the meter of EnvLong, and the strip on every field of
\* LlcInfos.
NextLlc ==
    \/ MeterInit
    \/ MeterConnect(EnvLong)
    \/ MeterDisconnect(EnvLong)
    \/ MeterReadAll(EnvLong)
    \/ StripIframeLlc
    \/ CallerResumes

SpecLlc == Init /\ [][NextLlc]_vars

\* call holds the record of a public function of the session
SessionCall == "lg" \in DOMAIN call
\* the COSEM PDUs the session builds with the configuration c and the
\* invoke-id id
SessionPdus(c, id) ==
    { cosem_build_aarq(AARQ_PDU_SIZE, c.password).buf,
      cosem_build_rlrq(RLRQ_PDU_SIZE).buf }
      \cup { cosem_build_get_request(
               GET_PDU_SIZE, id,
               [class_id |-> obis_table[i].class_id,
                obis |-> obis_table[i].obis, attribute_id |-> a]).buf
             : i \in Entries, a \in {2, 3} }
\* the information field of the built frame f, as hdlc_parse_frame gives it
InfoOf(f) ==
    With(hdlc_parse_frame(f),
      LAMBDA q : IF q.ret = 0 THEN SubSeq(q.frame.info, 1, q.frame.info_len)
                 ELSE << >>)
HasLlcHeader(info) ==
    /\ Len(info) >= LLC_HDR_LEN
    /\ SubSeq(info, 1, LLC_HDR_LEN) \in { << \hE6, \hE6, \h00 >>,
                                          << \hE6, \hE7, \h00 >> }
\* C31: the information field of every I-frame the session hands over is
\* E6 E6 00 followed by the COSEM PDU it built (the AARQ, the RLRQ or a GET
\* request), and for a received information field that begins with E6 E6 00
\* or E6 E7 00 the codec is given exactly the bytes behind these 3, the
\* length being 3 less.
C31_LlcPrependedAndStripped ==
    /\ SessionCall =>
         \A k \in IFramesHanded :
           LET f == call.lg[k].frame
               info == InfoOf(f)
           IN  /\ Len(info) > LLC_HDR_LEN
               /\ Len(f) = Len(info) + 11
               /\ SubSeq(info, 1, LLC_HDR_LEN) = << \hE6, \hE6, \h00 >>
               /\ SubSeq(info, LLC_HDR_LEN + 1, Len(info))
                    \in SessionPdus(call.pre.cfg, f[14])
    /\ (call.op = "strip_iframe_llc"
          /\ HasLlcHeader(SubSeq(call.in.resp.info, 1,
                                 call.in.resp.info_len))) =>
         /\ call.out.resp.info_len = call.in.resp.info_len - LLC_HDR_LEN
         /\ call.out.given = SubSeq(call.in.resp.info, LLC_HDR_LEN + 1,
                                    call.in.resp.info_len)
\* a strip of a field that holds the header of the client before a PDU that
\* itself begins with E6 E7 00
C31_Witness ==
    /\ call.op = "strip_iframe_llc"
    /\ call.in.resp.info = << \hE6, \hE6, \h00, \hE6, \hE7, \h00, \h61 >>
    /\ call.out.given = << \hE6, \hE7, \h00, \h61 >>


(* ---------------- a response that arrives in two parts ------------------ *)
\* The response frames of a meter, each cut at every place: the first part
\* is what the one rs485_recv of transact returns, the second part arrives
\* on the line after that, within the response timeout.
WholeFrames ==
    {RX_UA, RX_AARE_OK, RX_GET_VAL, RX_GET_DENIED, RX_GET_SCALER}
Arrivals ==
    { << SubSeq(f, 1, n), SubSeq(f, n + 1, Len(f)) >>
      : <<f, n>> \in { <<f, n>> \in WholeFrames \X (1..40) : n <= Len(f) } }
\* transact(tx, tx_len, &resp) on a line where rs485_recv returns the first
\* part; transact calls rs485_recv once and the next transact starts with
\* rs485_flush_rx, so the second part is never read
Transact ==
    Idle /\
    \E parts \in Arrivals :
      LET tx == hdlc_build_snrm(HDLC_MAX_FRAME_LEN, hdlc_client_addr,
                                hdlc_server_addr, HdlcNoParams).buf
          x == transact(Sess, tx, RxBytes(parts[1]))
      IN  CodecCall("transact", [tx |-> tx, parts |-> parts],
                    [ret |-> x.ret, resp |-> x.resp, sent |-> x.sent,
                     unread |-> parts[2]])
NextRecv ==
    \/ MeterInit
    \/ MeterSetConfig
    \/ Transact
    \/ CallerResumes

SpecRecv == Init /\ [][NextRecv]_vars

\* there is an opening flag in raw after which no flag follows
Incomplete(raw) == Len(raw) >= 9 /\ hdlc_find_frame(raw).ret = 0 - EAGAIN
\* C32: when the receive returns only the first part of a response frame,
\* with an opening flag and no closing flag, and the rest of the frame
\* arrives within the response timeout, the transaction reads on and
\* succeeds with the whole frame.
C32_PartialFrameReassembled ==
    (/\ call.op = "transact"
     /\ call.out.sent > 0
     /\ Incomplete(call.in.parts[1])
     /\ call.in.parts[1] \o call.in.parts[2] \in WholeFrames) =>
      /\ call.out.ret = 0
      /\ call.out.unread = << >>
      /\ call.out.resp
           = hdlc_parse_frame(call.in.parts[1] \o call.in.parts[2]).frame


(* ---------------- frames with any length field -------------------------- *)
\* The frame a peer sends with the 11-bit length field declared, both check
\* sequences computed over the bytes sent.
DeclaredFrame(dst, src, ctrl, info, declared) ==
    With(WithCrc(<< HDLC_FLAG,
                    Or8(HDLC_FORMAT_TYPE, (declared \div 256) % 8),
                    declared % 256, dst, src, ctrl >>),
      LAMBDA b1 :
        (IF Len(info) > 0 THEN WithCrc(b1 \o info) ELSE b1)
          \o << HDLC_FLAG >>)
\* the value the length field of a frame with this information field should
\* have: the bytes between the flags
FrameLenOf(info) == IF Len(info) > 0 THEN Len(info) + 9 ELSE 7
DeclaredInfos == { << >>, << \h7E >>, << \h00, \hFF >>, LongInfo(20) }
DeclaredLens(info) ==
    { 0, 1, FrameLenOf(info) - 1, FrameLenOf(info), FrameLenOf(info) + 1,
      FrameLenOf(info) + 256, 2047 }
HdlcParseDeclared ==
    Idle /\
    \E info \in DeclaredInfos, a \in CorruptAddrs, ctrl \in LlcCtrls :
      \E declared \in DeclaredLens(info) :
        CodecCall("hdlc_parse_declared",
                  [dst |-> a[1], src |-> a[2], ctrl |-> ctrl, info |-> info,
                   declared |-> declared],
                  hdlc_parse_frame(
                    DeclaredFrame(a[1], a[2], ctrl, info, declared)))
NextLen ==
    \/ HdlcParseDeclared
    \/ CallerResumes

SpecLen == Init /\ [][NextLen]_vars

\* C33: a frame whose length field disagrees with its length, its flags,
\* format type and both check sequences being right, is accepted by
\* hdlc_parse_frame with the fields and the information field it has, as
\* the same frame with the right length field is.
C33_LengthFieldIgnored ==
    (call.op = "hdlc_parse_declared"
       /\ call.in.declared # FrameLenOf(call.in.info)) =>
      /\ call.out.ret = 0
      /\ call.out.frame.valid
      /\ call.out.frame.dst_addr = call.in.dst
      /\ call.out.frame.src_addr = call.in.src
      /\ call.out.frame.control = call.in.ctrl
      /\ call.out.frame.info_len = Len(call.in.info)
      /\ call.out.frame.info = call.in.info
      /\ call.out
           = hdlc_parse_frame(
               DeclaredFrame(call.in.dst, call.in.src, call.in.ctrl,
                             call.in.info, FrameLenOf(call.in.info)))
\* a frame of 31 bytes that declares 2047 was accepted
C33_Witness ==
    /\ call.op = "hdlc_parse_declared"
    /\ call.in.info = LongInfo(20)
    /\ call.in.declared = 2047
    /\ call.out.ret = 0
    /\ call.out.frame.info_len = 20


\* the entries in the skip set when the call was entered; the scaler phase
\* never changes the skip set, so they are the entries in it when the value
\* phase started
SkippedAtEntry == {i \in Entries : call.pre.obis_skip[i]}
\* C34: when a meter_read_all that ran on an Associated session returns,
\* read_count + error_count is the number of entries that were outside the
\* skip set when the value phase started, so together with the entries
\* skipped then they make the size of the table.
C34_CountsCoverTable ==
    ReadAllRan =>
      /\ call.rd.read_count + call.rd.error_count
           = Cardinality(Entries \ SkippedAtEntry)
      /\ call.rd.read_count + call.rd.error_count
           + Cardinality(SkippedAtEntry) = OBIS_TABLE_SIZE
      /\ Len(SelectSeq(call.lg, LAMBDA ev : ev.e = "get" /\ ev.aux = 2))
           = call.rd.read_count + call.rd.error_count
\* a read entered with one entry in the skip set, in which one more entry
\* was refused and marked
C34_Witness ==
    /\ ReadAllRan
    /\ Cardinality(SkippedAtEntry) = 1
    /\ call.rd.read_count = 0
    /\ call.rd.error_count = OBIS_TABLE_SIZE - 1
    /\ \E i \in Entries \ SkippedAtEntry : obis_skip[i]


\* the SNRM frames handed over in the call
SnrmsHanded ==
    {k \in DOMAIN call.lg :
       call.lg[k].e = "tx" /\ IsSnrmFrame(call.lg[k].frame)}
\* C35: a meter_connect entered in a state other than Disconnected first
\* runs the whole meter_disconnect (the RLRQ when the state is Associated or
\* above, the DISC, the reset), and every SNRM is handed over while the state
\* is Disconnected and the HDLC send and receive sequences are 0.
C35_SnrmOnlyFromDisconnected ==
    SessionCall =>
      /\ \A k \in SnrmsHanded :
           /\ call.lg[k].st = METER_DISCONNECTED
           /\ call.lg[k].send_seq = 0
           /\ call.lg[k].recv_seq = 0
      /\ (call.op = "meter_connect" /\ call.pre.state # METER_DISCONNECTED) =>
           \A k \in SnrmsHanded :
             \E d \in 1..(k - 1) :
               /\ call.lg[d].e = "tx"
               /\ IsDiscFrame(call.lg[d].frame)
               /\ call.lg[d + 1].e = "state"
               /\ call.lg[d + 1].st = METER_DISCONNECTED
               /\ call.lg[d + 2] = EvRet("meter_disconnect",
                                         [state |-> METER_DISCONNECTED], 0)
               /\ d + 2 < k
               /\ call.pre.state >= METER_ASSOCIATED =>
                    /\ d > 1
                    /\ call.lg[d - 1].e = "tx"
                    /\ IsRlrqFrame(call.lg[d - 1].frame)
\* a connect entered in Associated after reads, with the receive sequence
\* above 0, that handed over RLRQ, DISC and then the SNRM
C35_Witness ==
    /\ call.op = "meter_connect"
    /\ call.pre.state = METER_ASSOCIATED
    /\ call.pre.hdlc_recv_seq > 0
    /\ call.pre.hdlc_send_seq > 1
    /\ SnrmsHanded # {}
    /\ \E k \in SnrmsHanded : IsDiscFrame(call.lg[k - 3].frame)


\* C36: meter_read_all never assigns the session state: it returns in the
\* state it was entered in, and after a call on an Associated session the
\* state is Associated, also when every request failed or timed out and the
\* call returned -EIO.
C36_ReadAllKeepsState ==
    call.op = "meter_read_all" =>
      /\ state = call.pre.state
      /\ \A k \in DOMAIN call.lg :
           /\ call.lg[k].e # "state"
           /\ call.lg[k].st = call.pre.state
      /\ ReadAllRan => state = METER_ASSOCIATED
\* a read on an Associated session in which every entry was asked for, no
\* request was answered, and that returned -EIO
C36_Witness ==
    /\ ReadAllRan
    /\ SkippedAtEntry = {}
    /\ call.ret = 0 - EIO
    /\ call.rd.error_count = OBIS_TABLE_SIZE
    /\ \A k \in IFramesHanded : call.lg[k].ret = 0 - EAGAIN
    /\ Cardinality(IFramesHanded) >= OBIS_TABLE_SIZE
    /\ state = METER_ASSOCIATED


\* C37 as stated: cosem_parse_aare reads no byte at an index at or beyond
\* len: for a PDU of 3 bytes or more with the AARE tag the result is the same
\* whatever lies in memory behind the len bytes, and a PDU of 3 to 6 bytes,
\* too short for the association-result element, gives -EPROTO.
C37_AareScanStaysInside ==
    call.op = "cosem_parse_aare_short" =>
      /\ ~call.out.fault
      /\ \A t2 \in AareTails :
           cosem_parse_aare(call.in.pdu \o t2, Len(call.in.pdu)) = call.out
      /\ Len(call.in.pdu) \in 3..6 => call.out.ret = 0 - EPROTO


\* C38 as stated: hdlc_find_frame applied to a frame that hdlc_build_iframe
\* gave returns 0 with start 0 and the length of the whole frame, for every
\* information field, address and sequence value, also when a byte between
\* the flags is 7E.
C38_FindFrameTakesBuiltFrame ==
    (call.op = "hdlc_build_iframe" /\ call.out.built.ret > 0) =>
      /\ call.out.found.ret = 0
      /\ call.out.found.frame_start = 0
      /\ call.out.found.frame_len = call.out.built.ret
      /\ call.out.found.frame_len = Len(call.out.built.buf)


(* ---------------- rs485_uart.c: the interrupt and the thread ------------ *)
\* the bytes that arrive on the line, at most, in one behaviour
MaxArrivals == 5
\* the bytes one interrupt finds in the FIFO, at most
IsrBurst == 2
\* rs485_recv: the polling loop runs while waited < 150, in steps of 10
RECV_POLL_LIMIT_MS == 150
RECV_POLL_STEP_MS == 10
\* the buf_size and the timeout_ms of the calls of rs485_recv
RecvBufSizes == {0, 2, RS485_RX_BUF_SIZE}
RecvTimeouts == {0 - 1, 0, 5}
\* the bytes an interrupt may find in the FIFO: each is the flag (1) or
\* carries its place in the arrival order (0)
Bursts ==
    UNION { [1..k -> {0, 1}] : k \in 1..IsrBurst }
ByteOf(n, flagged) == IF flagged = 1 THEN HDLC_FLAG ELSE n
RECURSIVE isr_read(_, _, _, _, _)
\* uart_isr_cb: the loop over uart_fifo_read, bytes[i] being the flag or not,
\* n the bytes that arrived before: [ring, head]
isr_read(ring, head, tail, bytes, n) ==
    IF bytes = << >> THEN [ring |-> ring, head |-> head]
    ELSE With(uart_isr_cb(ring, head, tail, ByteOf(n + 1, Head(bytes))),
           LAMBDA r : isr_read(r.ring, r.head, tail, Tail(bytes), n + 1))
RECURSIVE Arrive(_, _)
\* the observer's count of the same bytes: a byte joins the unread bytes
\* unless RS485_RX_BUF_SIZE - 1 bytes are unread, and then it is dropped
Arrive(w, bytes) ==
    IF bytes = << >> THEN w
    ELSE Arrive(
           IF Len(w.unread) < RS485_RX_BUF_SIZE - 1
           THEN [w EXCEPT !.n = @ + 1,
                          !.unread = Append(@, ByteOf(w.n + 1, Head(bytes)))]
           ELSE [w EXCEPT !.n = @ + 1, !.dropped = @ + 1],
           Tail(bytes))
\* the interrupt: it runs between any two steps of the thread that are not
\* inside irq_lock, reads the FIFO and gives the semaphore (limit 1)
UartIsr ==
    /\ wire.n < MaxArrivals
    /\ \E bytes \in Bursts :
         LET r == isr_read(rx_ring_buf, rx_head, rx_tail, bytes, wire.n) IN
           /\ rx_ring_buf' = r.ring
           /\ rx_head' = r.head
           /\ wire' = Arrive(wire, bytes)
    /\ rx_sem' = 1
    /\ UNCHANGED << rx_tail, recv >>
    /\ UNCHANGED sess_vars
\* rs485_recv up to the test of line 150: the arguments, the empty ring
RecvCall ==
    /\ recv.pc = "idle"
    /\ \E buf_size \in RecvBufSizes, timeout_ms \in RecvTimeouts :
         recv' = [RecvIdle EXCEPT
                    !.buf_size = buf_size,
                    !.timeout_ms = timeout_ms,
                    !.pc = IF buf_size = 0 THEN "done"
                           ELSE IF rx_head = rx_tail THEN "wait" ELSE "poll",
                    !.ret = IF buf_size = 0 THEN 0 - EINVAL ELSE 0]
    /\ wire' = [wire EXCEPT !.taken = << >>]
    /\ UNCHANGED << rx_ring_buf, rx_head, rx_tail, rx_sem >>
    /\ UNCHANGED sess_vars
\* rs485_recv, k_sem_take: the semaphore is taken when it is given; with
\* K_NO_WAIT the call returns at once, with a time in ms it may run out
RecvSemTake ==
    /\ recv.pc = "wait"
    /\ \/ /\ rx_sem = 1
          /\ rx_sem' = 0
          /\ recv' = [recv EXCEPT !.pc = "poll"]
       \/ /\ rx_sem = 0
          /\ recv.timeout_ms >= 0
          /\ rx_sem' = rx_sem
          /\ recv' = [recv EXCEPT !.pc = "done", !.ret = 0 - EAGAIN]
    /\ UNCHANGED << rx_ring_buf, rx_head, rx_tail, wire >>
    /\ UNCHANGED sess_vars
\* rs485_recv: one pass of the polling loop, k_sleep and the peek under
\* irq_lock; the loop ends on a closing flag or when waited reaches the limit
RecvPoll ==
    /\ recv.pc = "poll"
    /\ recv' = IF recv.waited < RECV_POLL_LIMIT_MS
               THEN IF recv_frame_complete(rx_ring_buf, rx_head, rx_tail)
                    THEN [recv EXCEPT !.pc = "copy"]
                    ELSE [recv EXCEPT !.waited = @ + RECV_POLL_STEP_MS]
               ELSE [recv EXCEPT !.pc = "copy"]
    /\ UNCHANGED << rx_ring_buf, rx_head, rx_tail, rx_sem, wire >>
    /\ UNCHANGED sess_vars
\* rs485_recv: the copy under irq_lock, the reset of the semaphore on an
\* empty ring, the count returned
RecvCopy ==
    /\ recv.pc = "copy"
    /\ LET c == recv_copy(rx_ring_buf, rx_head, rx_tail, << >>,
                          recv.buf_size)
           k == IF Len(wire.unread) < recv.buf_size THEN Len(wire.unread)
                ELSE recv.buf_size
       IN /\ rx_tail' = c.tail
          /\ rx_sem' = IF c.tail = rx_head THEN 0 ELSE rx_sem
          /\ recv' = [recv EXCEPT !.pc = "done", !.buf = c.buf,
                                  !.ret = Len(c.buf)]
          /\ wire' = [wire EXCEPT
                        !.taken = SubSeq(wire.unread, 1, k),
                        !.unread = SubSeq(wire.unread, k + 1,
                                          Len(wire.unread))]
    /\ UNCHANGED << rx_ring_buf, rx_head >>
    /\ UNCHANGED sess_vars
\* the caller of rs485_recv takes the result
RecvReturn ==
    /\ recv.pc = "done"
    /\ recv' = [RecvIdle EXCEPT !.ret = recv.ret]
    /\ UNCHANGED << rx_ring_buf, rx_head, rx_tail, rx_sem, wire >>
    /\ UNCHANGED sess_vars
\* rs485_flush_rx, under irq_lock; the shell thread may call it while the
\* meter thread is anywhere in rs485_recv outside irq_lock
FlushRx ==
    /\ rx_head' = 0
    /\ rx_tail' = 0
    /\ rx_sem' = 0
    /\ wire' = [wire EXCEPT !.unread = << >>]
    /\ UNCHANGED << rx_ring_buf, recv >>
    /\ UNCHANGED sess_vars
NextUart ==
    \/ UartIsr
    \/ RecvCall
    \/ RecvSemTake
    \/ RecvPoll
    \/ RecvCopy
    \/ RecvReturn
    \/ FlushRx
SpecUart == Init /\ [][NextUart]_vars
RECURSIVE RingContent(_, _, _)
\* the cells of the ring from tail up to head, in the order of reading
RingContent(ring, head, tail) ==
    IF tail = head THEN << >>
    ELSE << ring[tail] >>
           \o RingContent(ring, head, (tail + 1) % RS485_RX_BUF_SIZE)

\* C39: under every interleaving of the receive interrupt with rs485_recv
\* and rs485_flush_rx, both ring indices stay inside the ring, the unread
\* cells of the ring are the bytes that arrived since the latest flush and
\* were not yet returned, in arrival order, a byte being dropped only when
\* the ring holds its size less one unread bytes, and a call of rs485_recv
\* that returns a count returns that many of those bytes, the oldest first.
C39_RingSurvivesInterrupts ==
    /\ rx_head \in RingCells
    /\ rx_tail \in RingCells
    /\ RingContent(rx_ring_buf, rx_head, rx_tail) = wire.unread
    /\ recv.pc = "done" /\ recv.ret >= 0
         => /\ recv.buf = wire.taken
            /\ recv.ret = Len(recv.buf)
\* a byte was dropped on a full ring, the indices have wrapped around, and a
\* call returned two bytes in arrival order while more arrived behind them
C39_Witness ==
    /\ wire.dropped > 0
    /\ rx_head < rx_tail
    /\ recv.pc = "done"
    /\ recv.ret = 2
    /\ recv.buf = wire.taken
    /\ wire.unread # << >>


(* ---------------- two value reads that differ in the invoke-id --------- *)
\* the invoke-id-and-priority bytes of the responses
ResponseIds == {\h00, \h41, \hC1, \hFF}
\* what follows the invoke-id byte in a GET.response: a uint16, a refusal,
\* a scaler-unit structure, an unknown type, another choice
ResponseTails ==
    {<< \h00, COSEM_TYPE_UINT16, \h09, \h29 >>, << \h01, \h04 >>,
     << \h00, COSEM_TYPE_STRUCTURE, \h02, COSEM_TYPE_INT8, \hFF,
        COSEM_TYPE_ENUM, \h23 >>,
     << \h00, \hFF, \h00 >>, << \h02, \h00 >>}
\* the I-frame the meter answers a GET.request with
GetResponseFrame(id, tail) ==
    MkFrame(3, 3, \h52,
            llc_recv_hdr \o << COSEM_TAG_GET_RESPONSE, GET_RESPONSE_NORMAL,
                               id >> \o tail)
\* what a value read leaves behind: the session, the readings, what
\* read_obis_value returned
OutcomeOf(r) ==
    [s |-> r.s, rd |-> r.rd, ret |-> r.lg[Len(r.lg)].ret]
\* One pass of the value loop of meter_read_all for the entry i in the
\* association the session is in, run twice from the same state: once
\* answered with invoke-id byte id1, once with id2, all else equal.
ValueStepPair ==
    /\ Idle
    /\ state = METER_ASSOCIATED
    /\ \E i \in 1..OBIS_TABLE_SIZE, tail \in ResponseTails,
          id1 \in ResponseIds, id2 \in ResponseIds :
         LET a == [s |-> Sess, lg |-> << >>, rd |-> ZeroReadings]
             e1 == [EnvLong EXCEPT
                      !.get = {RxBytes(GetResponseFrame(id1, tail))}]
             e2 == [EnvLong EXCEPT
                      !.get = {RxBytes(GetResponseFrame(id2, tail))}]
         IN \E r1 \in value_step(e1, a, i), r2 \in value_step(e2, a, i) :
              CodecCall("value_step",
                        [i |-> i, tail |-> tail, id1 |-> id1, id2 |-> id2,
                         request |-> r1.lg[1].frame],
                        [first |-> OutcomeOf(r1), second |-> OutcomeOf(r2)])
NextPair ==
    \/ MeterInit
    \/ MeterConnect(EnvLong)
    \/ ValueStepPair
    \/ CallerResumes
SpecPair == Init /\ [][NextPair]_vars

\* C40: two GET.responses that differ only in the invoke-id byte leave a
\* value read with the same outcome: the same return value, the same
\* readings with the same counters, the same session with the same skip set.
C40_InvokeIdNotExamined ==
    "op" \in DOMAIN call /\ call.op = "value_step"
      => call.out.first = call.out.second
\* a value was read and counted from a response whose invoke-id byte is not
\* the one of the request, and the same response with another invoke-id byte
\* gave the same outcome
C40_Witness ==
    /\ "op" \in DOMAIN call
    /\ call.op = "value_step"
    /\ call.in.id1 # InvokeIdOf(call.in.request)
    /\ call.in.id1 # call.in.id2
    /\ call.out.first.ret = 0
    /\ call.out.first.rd.read_count = 1
    /\ call.out.second.rd.read_count = 1

====
